---- MODULE Spec2Model ----
(***************************************************************************)
(* A model of the traversal / aggregation core of sap (an lsd fork):      *)
(*   - flags::IgnoreGlobs   the PatternMatcher (classification, is_match)  *)
(*   - git::GitCache        the StatusCache lookup                          *)
(*   - stream::FileStream   the jwalk traversal with pruning and display    *)
(*   - core::Core           the three output views and the sort step        *)
(*   - meta::Meta           build_hierarchical_content (attach and drain)   *)
(*   - llm::Shield          the output shield                               *)
(*   - sort                 the comparator chain                            *)
(* Names are sequences of one-character strings, paths are sequences of    *)
(* names.  Every component has its own specification over its own          *)
(* variables; the variables of the other components stay idle.             *)
(***************************************************************************)
EXTENDS Integers, Sequences, FiniteSets, TLC

VARIABLES
    \* PatternMatcher (flags/ignore_globs.rs)
    gpc,          \* "init" | "built" | "matched"
    patterns,     \* the pattern strings handed to from_patterns
    candidate,    \* the name handed to is_match
    matcher,      \* the IgnoreGlobs value (or NoMatcher)
    verdict       \* the result of is_match

VARIABLES
    \* StatusCache (git.rs)
    cpc,          \* "init" | "built" | "got"
    repo,         \* what discovery and the status scan deliver
    statuses,     \* GitCache.statuses: Vec<(PathBuf, GitStatusInfo)>
    query,        \* the last (filepath, is_directory) handed to get
    got           \* the Option<GitFileStatus> get returned

VARIABLES
    \* OutputShield (llm/shield.rs)
    spc,          \* "idle" | "ready" | "done"
    tempFiles,    \* the files of the shield's temp_dir: name -> lines
    payload,      \* the last jsonl_data handed to process
    shielded      \* the last Result<ShieldResult> process returned

VARIABLES
    \* The sort step (core.rs, sort.rs)
    opc,          \* "idle" | "ready"
    sorting,      \* flags.sorting: dir_grouping, column, order
    metas,        \* the Vec<Meta> being sorted
    previous,     \* metas as it was before the last sort
    nsorts        \* how many times sort has run

VARIABLES
    \* A run (main.rs, core.rs, stream/mod.rs)
    ppc,          \* "idle" | "run" | "tree" | "buffered" | "llm" | "exit"
    flags,        \* the Flags of the run
    paths,        \* the paths of the command line
    file_stream,  \* the items the FileStream has yet to yield
    yielded,      \* the items it has yielded
    opened,       \* the directories the traversal reads
    entries,      \* the entries a buffering view has collected
    exit_code,    \* the ExitCode of the view
    stdout,       \* what has been printed
    stderr        \* the diagnostics printed

VARIABLES
    \* The recursive listing (meta/mod.rs)
    bpc,                \* "idle" | "listing" | "collected" | "built"
    listing,            \* the directory recurse_into is called on, and the flags
    all_entries,        \* the (depth, Result<Meta, ExitCode>) pairs collected
    content,            \* the content built
    children_by_parent, \* the grouping map on return
    warnings,           \* the orphan warnings printed
    listing_exit        \* the ExitCode accumulated

VARIABLES
    \* The configuration of the PatternMatcher (flags/ignore_globs.rs, main.rs)
    kpc,                 \* "idle" | "init" | "configured" | "matched" | "exited"
    cli_ignore_glob,     \* cli.ignore_glob: the --ignore-glob arguments
    config_ignore_globs, \* config.ignore_globs: Option<Vec<String>>
    configured,          \* what IgnoreGlobs::configure_from returned
    match_name,          \* the name handed to is_match
    matched              \* what is_match returned

VARIABLES
    \* The TreeAccumulator (stream/tree_accumulator.rs) and its consumer
    apc,              \* "idle" | "polling" | "ended"
    source,           \* what the source stream has still to deliver
    source_ended,     \* whether the source has returned Ready(None)
    polled_after_end, \* the polls of the source made after it had
    tree_accumulator, \* buffer, pending_output, is_complete, root
    renderings,       \* the lines of every rendering poll_next has made
    received          \* the items the consumer has received, in order

globVars == <<gpc, patterns, candidate, matcher, verdict>>
gitVars == <<cpc, repo, statuses, query, got>>
shieldVars == <<spc, tempFiles, payload, shielded>>
sortVars == <<opc, sorting, metas, previous, nsorts>>
runVars == <<ppc, flags, paths, file_stream, yielded, opened, entries, exit_code, stdout, stderr>>
buildVars == <<bpc, listing, all_entries, content, children_by_parent, warnings, listing_exit>>

configVars == <<kpc, cli_ignore_glob, config_ignore_globs, configured, match_name, matched>>

accumulatorVars == <<apc, source, source_ended, polled_after_end, tree_accumulator, renderings, received>>

vars == <<globVars, gitVars, shieldVars, sortVars, runVars, buildVars, configVars, accumulatorVars>>

\* What an action of one component leaves alone
notGlob == <<gitVars, shieldVars, sortVars, runVars, buildVars, configVars, accumulatorVars>>
notGit == <<globVars, shieldVars, sortVars, runVars, buildVars, configVars, accumulatorVars>>
notShield == <<globVars, gitVars, sortVars, runVars, buildVars, configVars, accumulatorVars>>
notSort == <<globVars, gitVars, shieldVars, runVars, buildVars, configVars, accumulatorVars>>
notRun == <<globVars, gitVars, shieldVars, sortVars, buildVars, configVars, accumulatorVars>>
notBuild == <<globVars, gitVars, shieldVars, sortVars, runVars, configVars, accumulatorVars>>
notConfig == <<globVars, gitVars, shieldVars, sortVars, runVars, buildVars, accumulatorVars>>
notAccumulator == <<globVars, gitVars, shieldVars, sortVars, runVars, buildVars, configVars>>

(***************************************************************************)
(* Characters and strings                                                  *)
(***************************************************************************)

\* The byte that is not valid UTF-8 (an OsStr may hold it, a str may not).
BadByte == "\\xFF"
\* U+FFFD, what to_string_lossy puts in its place.
Replacement == "U+FFFD"

\* char::to_lowercase on the letters of the model
LowerChar(c) ==
    CASE c = "A" -> "a"
      [] c = "O" -> "o"
      [] c = "T" -> "t"
      [] OTHER -> c

ToLowercase(s) == [i \in 1..Len(s) |-> LowerChar(s[i])]

\* OsStr::to_str: None when the name is not valid UTF-8
ToStrIsSome(name) == \A i \in 1..Len(name) : name[i] # BadByte

\* OsStr::to_string_lossy
ToStringLossy(name) ==
    [i \in 1..Len(name) |-> IF name[i] = BadByte THEN Replacement ELSE name[i]]

StartsWith(s, prefix) ==
    /\ Len(prefix) <= Len(s)
    /\ \A i \in 1..Len(prefix) : s[i] = prefix[i]

Contains(s, chars) == \E i \in 1..Len(s) : s[i] \in chars

Drop(s, n) == [i \in 1..(Len(s) - n) |-> s[i + n]]

\* The index of the last "." of s, 0 when there is none
LastDot(s) ==
    LET dots == {i \in 1..Len(s) : s[i] = "."}
    IN  IF dots = {} THEN 0 ELSE CHOOSE i \in dots : \A j \in dots : j <= i

\* Option<T>: None is the empty sequence, Some(x) the one-element sequence
None == <<>>
Some(x) == <<x>>

\* Path::extension of a single-component name: None for "..", for a name
\* without a dot and for a name whose only dot is the leading one; otherwise
\* the part after the last dot (possibly empty).
PathExtension(name) ==
    IF name = <<".", ".">> \/ LastDot(name) <= 1
    THEN None
    ELSE Some(Drop(name, LastDot(name)))

(***************************************************************************)
(* PatternMatcher: flags/ignore_globs.rs                                   *)
(***************************************************************************)

GlobMeta == {"*", "?", "[", "]"}

\* globset's matching of one glob against a whole name: "*" is any run of
\* characters, "?" is any one character, anything else is itself; matching is
\* case sensitive.
RECURSIVE GlobMatch(_, _)
GlobMatch(p, n) ==
    IF p = <<>> THEN n = <<>>
    ELSE IF Head(p) = "*"
         THEN GlobMatch(Tail(p), n) \/ (n # <<>> /\ GlobMatch(p, Tail(n)))
    ELSE IF n = <<>> THEN FALSE
    ELSE IF Head(p) = "?" THEN GlobMatch(Tail(p), Tail(n))
    ELSE Head(p) = Head(n) /\ GlobMatch(Tail(p), Tail(n))

\* IgnoreGlobs::classify_pattern
ClassifyPatternNoLowercase(pattern) ==
    IF StartsWith(pattern, <<"*", ".">>)
       /\ ~Contains(Drop(pattern, 2), GlobMeta \cup {"."})
    THEN [kind |-> "Extension", text |-> Drop(pattern, 2)]
    ELSE IF ~Contains(pattern, GlobMeta)
    THEN [kind |-> "ExactName", text |-> pattern]
    ELSE [kind |-> "Complex", text |-> pattern]

classify_pattern(pattern) ==
    IF StartsWith(pattern, <<"*", ".">>)
       /\ ~Contains(Drop(pattern, 2), GlobMeta \cup {"."})
    THEN [kind |-> "Extension", text |-> ToLowercase(Drop(pattern, 2))]
    ELSE IF ~Contains(pattern, GlobMeta)
    THEN [kind |-> "ExactName", text |-> pattern]
    ELSE [kind |-> "Complex", text |-> pattern]

\* IgnoreGlobs::from_patterns
from_patterns(pats) ==
    LET cls == [i \in 1..Len(pats) |-> classify_pattern(pats[i])]
        of(kind) == {cls[i].text : i \in {j \in 1..Len(pats) : cls[j].kind = kind}}
    IN  [extensions    |-> of("Extension"),
         exact_names   |-> of("ExactName"),
         complex_globs |-> of("Complex")]

\* A match that compares the extension of the name as it is written
IsMatchCaseSensitive(m, name) ==
    LET name_str == ToStringLossy(name)
        ext      == PathExtension(name_str)
    IN  \/ ext # None /\ ext[1] \in m.extensions
        \/ name_str \in m.exact_names
        \/ \E g \in m.complex_globs : GlobMatch(g, name)

\* IgnoreGlobs::is_match
is_match(m, name) ==
    LET name_str == ToStringLossy(name)
        ext      == PathExtension(name_str)
    IN  \/ ext # None /\ ToLowercase(ext[1]) \in m.extensions
        \/ name_str \in m.exact_names
        \/ \E g \in m.complex_globs : GlobMatch(g, name)

NoMatcher == [extensions |-> {}, exact_names |-> {}, complex_globs |-> {}]

(***************************************************************************)
(* Specification of the PatternMatcher: one pattern, one candidate name    *)
(***************************************************************************)

MaxPatternLen == 3
MaxNameLen == 3

PatternAlphabet == {"a", "A", ".", "*", "?"}
NameAlphabet == {"a", "A", "."}

SeqsUpTo(S, n) == UNION {[1..k -> S] : k \in 1..n}

\* The names a directory listing can deliver: "." and ".." are never among them
CandidateNames == SeqsUpTo(NameAlphabet, MaxNameLen) \ {<<".">>, <<".", ".">>}

\* The PatternMatcher's variables when another component is specified
GlobIdle ==
    /\ gpc = "idle"
    /\ patterns = <<>>
    /\ candidate = <<>>
    /\ matcher = NoMatcher
    /\ verdict = FALSE

GlobStart ==
    /\ gpc = "init"
    /\ patterns \in {<<p>> : p \in SeqsUpTo(PatternAlphabet, MaxPatternLen)}
    /\ candidate \in CandidateNames
    /\ matcher = NoMatcher
    /\ verdict = FALSE

BuildMatcher ==
    /\ gpc = "init"
    /\ matcher' = from_patterns(patterns)
    /\ gpc' = "built"
    /\ UNCHANGED <<patterns, candidate, verdict>>
    /\ UNCHANGED notGlob

Match ==
    /\ gpc = "built"
    /\ verdict' = is_match(matcher, candidate)
    /\ gpc' = "matched"
    /\ UNCHANGED <<patterns, candidate, matcher>>
    /\ UNCHANGED notGlob

GlobNext == BuildMatcher \/ Match

(***************************************************************************)
(* StatusCache: git.rs, meta/git_file_status.rs                            *)
(***************************************************************************)

\* enum GitStatus in its declared order, which is the order derive(Ord) uses
GitStatusOrder ==
    <<"Default", "Unmodified", "Ignored", "NewInIndex", "NewInWorkdir",
      "Typechange", "Deleted", "Renamed", "Modified", "Conflicted",
      "GitConflicted">>

GitStatus == {GitStatusOrder[i] : i \in 1..Len(GitStatusOrder)}

Severity(st) == CHOOSE i \in 1..Len(GitStatusOrder) : GitStatusOrder[i] = st

\* The lesser of two statuses
MinStatus(a, b) == IF Severity(a) < Severity(b) THEN a ELSE b

\* std::cmp::max on GitStatus
MaxStatus(a, b) == IF Severity(a) > Severity(b) THEN a ELSE b

\* struct GitStatusInfo { index_status, workdir_status : Option<GitStatus> }
StatusInfo(i, w) == [index_status |-> i, workdir_status |-> w]

\* GitCache::convert_gix_status and convert_tree_index_status, by the kind of
\* item the status scan delivers
convert_status(item) ==
    CASE item = "Conflict"         -> StatusInfo(Some("Conflicted"), Some("Conflicted"))
      [] item = "Removed"          -> StatusInfo(None, Some("Deleted"))
      [] item = "TypeChange"       -> StatusInfo(None, Some("Typechange"))
      [] item = "Modification"     -> StatusInfo(None, Some("Modified"))
      [] item = "Submodule"        -> StatusInfo(None, Some("Modified"))
      [] item = "NeedsUpdate"      -> StatusInfo(None, None)
      [] item = "IntentToAdd"      -> StatusInfo(Some("NewInIndex"), None)
      [] item = "Untracked"        -> StatusInfo(None, Some("NewInWorkdir"))
      [] item = "Ignored"          -> StatusInfo(None, Some("Ignored"))
      [] item = "OtherDirEntry"    -> StatusInfo(None, None)
      [] item = "RewriteCopy"      -> StatusInfo(None, Some("Modified"))
      [] item = "RewriteRename"    -> StatusInfo(None, Some("Renamed"))
      [] item = "IndexAddition"    -> StatusInfo(Some("NewInIndex"), Some("Unmodified"))
      [] item = "IndexDeletion"    -> StatusInfo(Some("Deleted"), Some("Unmodified"))
      [] item = "IndexModification" -> StatusInfo(Some("Modified"), Some("Unmodified"))
      [] item = "IndexRewrite"     -> StatusInfo(Some("Renamed"), Some("Unmodified"))

\* GitFileStatus::default
DefaultFileStatus == [index |-> "Default", workdir |-> "Default"]

\* Option::unwrap_or
UnwrapOr(opt, dflt) == IF opt = None THEN dflt ELSE opt[1]

\* GitFileStatus::from_gix_status
from_gix_status(info) ==
    [index   |-> UnwrapOr(info.index_status, "Unmodified"),
     workdir |-> UnwrapOr(info.workdir_status, "Unmodified")]

\* Path::starts_with: a prefix of whole components
PathStartsWith(path, base) ==
    /\ Len(base) <= Len(path)
    /\ \A i \in 1..Len(base) : path[i] = base[i]

\* The working tree of the model: the directory a with the file a/f and the
\* directory a/b holding a/b/g, the file c, and ln, a symbolic link to a.
\* Paths are relative to the (canonical) working directory.
WorkTreeFiles == {<<"a", "f">>, <<"a", "b", "g">>, <<"c">>}
WorkTreeDirs == {<<"a">>, <<"a", "b">>}
LinkName == "ln"
LinkTarget == <<"a">>

\* std::fs::canonicalize: resolves the link, fails with NotFound on a path
\* that does not exist
Resolve(path) ==
    IF path # <<>> /\ path[1] = LinkName THEN LinkTarget \o Tail(path) ELSE path

Canonicalize(path) ==
    IF Resolve(path) \in (WorkTreeFiles \cup WorkTreeDirs)
    THEN Some(Resolve(path))
    ELSE None

\* The fold of the directory branch of inner_get, a record at a time
RECURSIVE FoldLast(_, _, _)
FoldLast(recs, filepath, acc) ==
    IF recs = <<>> THEN acc
    ELSE LET x == from_gix_status(Head(recs)[2])
         IN  FoldLast(Tail(recs), filepath,
                      IF PathStartsWith(Head(recs)[1], filepath) THEN x ELSE acc)

RECURSIVE FoldMax(_, _, _)
FoldMax(recs, filepath, acc) ==
    IF recs = <<>> THEN acc
    ELSE LET x == from_gix_status(Head(recs)[2])
         IN  FoldMax(Tail(recs), filepath,
                     IF PathStartsWith(Head(recs)[1], filepath)
                     THEN [index   |-> MaxStatus(acc.index, x.index),
                           workdir |-> MaxStatus(acc.workdir, x.workdir)]
                     ELSE acc)

\* A find by path prefix in place of path equality
RECURSIVE FindPrefix(_, _)
FindPrefix(recs, filepath) ==
    IF recs = <<>> THEN None
    ELSE IF PathStartsWith(Head(recs)[1], filepath) THEN Some(Head(recs)[2])
    ELSE FindPrefix(Tail(recs), filepath)

\* The find of the file branch of inner_get: the first record of that path
RECURSIVE FindFirst(_, _)
FindFirst(recs, filepath) ==
    IF recs = <<>> THEN None
    ELSE IF Head(recs)[1] = filepath THEN Some(Head(recs)[2])
    ELSE FindFirst(Tail(recs), filepath)

\* GitCache::inner_get
inner_get(recs, filepath, is_directory) ==
    IF is_directory
    THEN FoldMax(recs, filepath, DefaultFileStatus)
    ELSE IF FindFirst(recs, filepath) = None
         THEN DefaultFileStatus
         ELSE from_gix_status(FindFirst(recs, filepath)[1])

\* GitCache::get
get(recs, filepath, is_directory) ==
    IF Canonicalize(filepath) = None
    THEN None
    ELSE Some(inner_get(recs, Canonicalize(filepath)[1], is_directory))

(***************************************************************************)
(* Specification of the StatusCache                                        *)
(***************************************************************************)

MaxRecords == 2

\* The kinds of item the scans of the model deliver
ScannedItems ==
    {"Modification", "Ignored", "NeedsUpdate", "IntentToAdd",
     "IndexModification", "Conflict"}

\* The paths the scan reports: the files, and a directory (reported whole
\* when it is ignored)
RecordPaths == WorkTreeFiles \cup {<<"a", "b">>}

\* A status scan: a list of (path, item)
Scans ==
    UNION {[1..k -> RecordPaths \X ScannedItems] : k \in 0..MaxRecords}

QueryPaths ==
    WorkTreeFiles \cup WorkTreeDirs \cup {<<LinkName>>, <<LinkName, "b">>, <<LinkName, "f">>, <<"gone">>}

GitIdle ==
    /\ cpc = "idle"
    /\ repo = [found |-> FALSE, scan_ok |-> FALSE, scan |-> <<>>]
    /\ statuses = <<>>
    /\ query = <<>>
    /\ got = None

GitStart ==
    /\ cpc = "init"
    /\ repo \in [found : BOOLEAN, scan_ok : BOOLEAN, scan : Scans]
    /\ statuses = <<>>
    /\ query = <<>>
    /\ got = None

\* GitCache::new: an empty cache when no repository is discovered or the
\* status scan fails, otherwise one record per scanned item
GitCacheNew ==
    /\ cpc = "init"
    /\ statuses' = IF repo.found /\ repo.scan_ok
                   THEN [i \in 1..Len(repo.scan) |->
                            <<repo.scan[i][1], convert_status(repo.scan[i][2])>>]
                   ELSE <<>>
    /\ cpc' = "built"
    /\ UNCHANGED <<repo, query, got>>
    /\ UNCHANGED notGit

\* GitCache::get(filepath, is_directory)
GitCacheGet ==
    /\ cpc \in {"built", "got"}
    /\ \E filepath \in QueryPaths, is_directory \in BOOLEAN :
          /\ query' = <<filepath, is_directory>>
          /\ got' = get(statuses, filepath, is_directory)
    /\ cpc' = "got"
    /\ UNCHANGED <<repo, statuses>>
    /\ UNCHANGED notGit

GitNext == GitCacheNew \/ GitCacheGet

(***************************************************************************)
(* OutputShield: llm/shield.rs                                             *)
(***************************************************************************)

\* const MAX_JSON_SIZE_BYTES: usize = 10 * 1024 * 1024
MAX_JSON_SIZE_BYTES == 10485760

\* The records of the model.  A record is a JSON value: its "path" (the string
\* split at '/'), "type" and "size" members, each of which may be missing, and
\* len, the length of its serialization.  The lengths are chosen so that small
\* payloads serialize to exactly the threshold and to one byte more.
RecManifest ==
    [path |-> Some(<<"", "t", "Cargo.toml">>), type |-> Some("file"),
     size |-> Some(1), len |-> 60]
RecMain ==
    [path |-> Some(<<"", "t", "src", "main.rs">>), type |-> Some("file"),
     size |-> Some(2), len |-> MAX_JSON_SIZE_BYTES - 63]
RecSrc ==
    [path |-> Some(<<"", "t", "src">>), type |-> Some("directory"),
     size |-> Some(2), len |-> MAX_JSON_SIZE_BYTES - 62]
RecNoPath ==
    [path |-> None, type |-> Some("file"),
     size |-> Some(5), len |-> MAX_JSON_SIZE_BYTES - 2]
RecOther ==
    [path |-> Some(<<"", "o", "x">>), type |-> None,
     size |-> None, len |-> MAX_JSON_SIZE_BYTES - 1]

ShieldRecords == {RecManifest, RecMain, RecSrc, RecNoPath, RecOther}

RECURSIVE SumLen(_)
SumLen(data) == IF data = <<>> THEN 0 ELSE Head(data).len + SumLen(Tail(data))

\* serde_json::to_string(&Vec<Value>).len(): the brackets, the records and
\* the commas between them
SerializedSize(data) ==
    2 + SumLen(data) + (IF Len(data) > 1 THEN Len(data) - 1 ELSE 0)

MarkerFiles ==
    {"Cargo.toml", "package.json", "go.mod", "pyproject.toml", "setup.py",
     "pom.xml", "build.gradle", "Makefile", "CMakeLists.txt", "README.md",
     "main.rs", "lib.rs"}

\* path_str.strip_prefix(root).and_then(|p| p.strip_prefix('/')).unwrap_or(path_str)
RelativePath(path, root_path) ==
    IF root_path # None
       /\ PathStartsWith(path, root_path[1])
       /\ Len(path) > Len(root_path[1])
    THEN Drop(path, Len(root_path[1]))
    ELSE path

\* PathBuf::parent of the original path
Parent(path) == SubSeq(path, 1, Len(path) - 1)

WithPath(data) == {i \in 1..Len(data) : data[i].path # None}

RECURSIVE SumSizes(_, _)
SumSizes(data, idx) ==
    IF idx = {} THEN 0
    ELSE LET i == CHOOSE j \in idx : TRUE
         IN  data[i].size[1] + SumSizes(data, idx \ {i})

\* dir_sizes: the bytes of the records of each parent directory
DirSizes(data) ==
    LET sized == {i \in WithPath(data) : data[i].size # None /\ Len(data[i].path[1]) > 1}
    IN  {<<Parent(data[i].path[1]),
           SumSizes(data, {j \in sized : Parent(data[j].path[1]) = Parent(data[i].path[1])})>>
         : i \in sized}

\* largest_dirs: dir_sizes in an order of descending size (the order of equal
\* sizes is that of the HashMap's iteration), cut to the first ten
LargestDirsOrders(data) ==
    LET ds == DirSizes(data)
        n  == Cardinality(ds)
    IN  {SubSeq(o, 1, IF n < 10 THEN n ELSE 10) :
            o \in {q \in [1..n -> ds] :
                     /\ \A i, j \in 1..n : i # j => q[i] # q[j]
                     /\ \A i, j \in 1..n : i < j => q[i][2] >= q[j][2]}}

\* Shield::generate_summary, given the order chosen for largest_dirs
generate_summary(data, file_path, root_path, largest) ==
    LET rel(i) == RelativePath(data[i].path[1], root_path)
    IN  [total_entries      |-> Len(data),
         total_size_bytes   |-> SerializedSize(data),
         file_path          |-> file_path,
         top_level_dirs     |-> {rel(i)[1] : i \in {j \in WithPath(data) : rel(j)[1] # ""}},
         file_types_summary |->
             {<<t, Cardinality({i \in WithPath(data) : data[i].type = Some(t)})>> :
                 t \in {data[i].type[1] : i \in {j \in WithPath(data) : data[j].type # None}}},
         largest_dirs       |-> largest,
         marker_files       |->
             LET idx == {i \in WithPath(data) : rel(i)[Len(rel(i))] \in MarkerFiles}
                 RECURSIVE Collect(_)
                 Collect(i) ==
                     IF i > Len(data) THEN <<>>
                     ELSE (IF i \in idx THEN <<rel(i)>> ELSE <<>>) \o Collect(i + 1)
             IN  Collect(1)]

\* A comparison that spills a payload of exactly the threshold
FitsStrict(size_bytes) == size_bytes < MAX_JSON_SIZE_BYTES

\* Whether process passes the payload through: size_bytes <= MAX_JSON_SIZE_BYTES
Fits(size_bytes) == size_bytes <= MAX_JSON_SIZE_BYTES

PassThrough(data) == [kind |-> "PassThrough", data |-> data]

FileShielded(path, size, count, summary) ==
    [kind |-> "FileShielded", path |-> path, original_size |-> size,
     entry_count |-> count, summary |-> summary]

ShieldErr == [kind |-> "Err"]

(***************************************************************************)
(* Specification of the OutputShield                                       *)
(***************************************************************************)

MaxPayload == 2

Payloads == UNION {[1..k -> ShieldRecords] : k \in 0..MaxPayload}

\* The file names of the model
FileNames == {"u1.jsonl", "u2.jsonl"}

\* A name generator that gives the same name at every call
FixedName(files) == {"u1.jsonl"}

\* format!("{}.jsonl", Uuid::new_v4()): a random 122-bit identifier, taken to
\* be one that names no file the temp_dir already holds
new_v4(files) == FileNames \ DOMAIN files

\* file_content: to_string(entry) followed by '\n', for each entry in turn;
\* the compact serialization holds no line break, so line i is entry i
file_content(data) == [i \in 1..Len(data) |-> data[i]]

RootPaths == {None, Some(<<"", "t">>)}

ShieldIdle ==
    /\ spc = "idle"
    /\ tempFiles = <<>>
    /\ payload = <<>>
    /\ shielded = [kind |-> "none"]

\* What the temp_dir holds when the shield is made: nothing, or the file an
\* earlier spill left there (spill files are never cleaned up)
EarlierFiles == {<<>>, [n \in {"u1.jsonl"} |-> <<RecOther>>]}

\* Shield::new: the temp_dir exists, nothing has been processed
ShieldStart ==
    /\ spc = "ready"
    /\ tempFiles \in EarlierFiles
    /\ payload = <<>>
    /\ shielded = [kind |-> "none"]

\* Shield::process(jsonl_data, root_path); fs::write may fail
ShieldProcess ==
    /\ spc = "ready"
    /\ \E data \in Payloads, root_path \in RootPaths,
          file_name \in new_v4(tempFiles), write_ok \in BOOLEAN :
          /\ payload' = data
          /\ IF Fits(SerializedSize(data))
             THEN /\ shielded' = PassThrough(data)
                  /\ UNCHANGED tempFiles
             ELSE IF ~write_ok
             THEN /\ shielded' = ShieldErr
                  /\ UNCHANGED tempFiles
             ELSE /\ tempFiles' =
                        [n \in (DOMAIN tempFiles) \cup {file_name} |->
                            IF n = file_name THEN file_content(data) ELSE tempFiles[n]]
                  /\ \E largest \in LargestDirsOrders(data) :
                        shielded' = FileShielded(file_name, SerializedSize(data), Len(data),
                            generate_summary(data, file_name, root_path, largest))
    /\ spc' = "done"
    /\ UNCHANGED notShield

ShieldNext == ShieldProcess

(***************************************************************************)
(* The comparator chain: sort.rs                                           *)
(***************************************************************************)

\* The characters of the model's names in the order of their code points
CharOrder ==
    <<".", "A", "O", "T", "a", "b", "c", "d", "f", "h", "k", "o", "q", "r",
      "t", "v", "x", "y", "z", Replacement>>

CharRank(c) == CHOOSE i \in 1..Len(CharOrder) : CharOrder[i] = c

\* std::cmp::Ordering
Reverse(o) ==
    CASE o = "Less" -> "Greater"
      [] o = "Greater" -> "Less"
      [] OTHER -> "Equal"

\* Ordering::then
Then(o1, o2) == IF o1 = "Equal" THEN o2 ELSE o1

CmpInt(a, b) == IF a < b THEN "Less" ELSE IF a > b THEN "Greater" ELSE "Equal"

\* bool::cmp: false < true
CmpBool(a, b) == CmpInt(IF a THEN 1 ELSE 0, IF b THEN 1 ELSE 0)

\* str::cmp: lexicographic by code point
RECURSIVE CmpStr(_, _)
CmpStr(a, b) ==
    IF a = <<>> THEN (IF b = <<>> THEN "Equal" ELSE "Less")
    ELSE IF b = <<>> THEN "Greater"
    ELSE IF Head(a) = Head(b) THEN CmpStr(Tail(a), Tail(b))
    ELSE CmpInt(CharRank(Head(a)), CharRank(Head(b)))

\* Option<T>::cmp: None < Some(_), two Some by their contents (inner)
CmpOption(a, b, inner) ==
    IF a = None THEN (IF b = None THEN "Equal" ELSE "Less")
    ELSE IF b = None THEN "Greater"
    ELSE inner

\* meta::Date: Date(t) | Invalid, ordered as derived (Date(_) < Invalid)
DateAt(t) == [kind |-> "Date", t |-> t]
DateInvalid == [kind |-> "Invalid", t |-> 0]
CmpDate(a, b) ==
    IF a.kind = "Date" /\ b.kind = "Date" THEN CmpInt(a.t, b.t)
    ELSE CmpBool(a.kind = "Invalid", b.kind = "Invalid")

\* GitFileStatus::cmp as derived: the index status, then the workdir status
CmpGitFileStatus(a, b) ==
    Then(CmpInt(Severity(a.index), Severity(b.index)),
         CmpInt(Severity(a.workdir), Severity(b.workdir)))

\* Name::cmp: the names lowercased
CmpName(a, b) == CmpStr(ToLowercase(a), ToLowercase(b))

\* FileType::is_dirlike
is_dirlike(file_type) == file_type \in {"Directory", "SymLinkDir"}

\* The last component of a path
FileName(path) == path[Len(path)]

\* A Meta as the views build it: Name::new takes name and extension from the
\* path (lossily); content is None until a tree is built
NewMeta(path, file_type, size, date, git_status) ==
    [path       |-> path,
     name       |-> ToStringLossy(FileName(path)),
     extension  |-> IF PathExtension(FileName(path)) = None THEN None
                    ELSE Some(ToStringLossy(PathExtension(FileName(path))[1])),
     file_type  |-> file_type,
     size       |-> size,
     date       |-> date,
     git_status |-> git_status,
     content    |-> None]

with_dirs_first(a, b) == CmpBool(is_dirlike(b.file_type), is_dirlike(a.file_type))

\* A by_size that ranks an unknown size after every other in both positions
BySizeNoneLast(a, b) ==
    IF a.size # None /\ b.size # None THEN CmpInt(b.size[1], a.size[1])
    ELSE IF a.size = None /\ b.size = None THEN "Equal"
    ELSE "Greater"

by_size(a, b) ==
    IF a.size # None /\ b.size # None THEN CmpInt(b.size[1], a.size[1])
    ELSE IF a.size # None THEN "Greater"
    ELSE IF b.size # None THEN "Less"
    ELSE "Equal"

by_name(a, b) == CmpName(a.name, b.name)

by_date(a, b) == Then(CmpOption(b.date, a.date, CmpDate(b.date[1], a.date[1])), CmpName(a.name, b.name))

\* vsort::compare of the two names: an order of the name text.  The names of
\* the model hold no digits, where it is the order of the text itself.
by_version(a, b) == CmpStr(a.name, b.name)

by_extension(a, b) == CmpOption(a.extension, b.extension, CmpStr(a.extension[1], b.extension[1]))

by_git_status(a, b) ==
    CmpOption(a.git_status, b.git_status, CmpGitFileStatus(a.git_status[1], b.git_status[1]))

\* Calling a SortFn
ApplySortFn(sorter, a, b) ==
    CASE sorter = "with_dirs_first" -> with_dirs_first(a, b)
      [] sorter = "by_name" -> by_name(a, b)
      [] sorter = "by_size" -> by_size(a, b)
      [] sorter = "by_date" -> by_date(a, b)
      [] sorter = "by_version" -> by_version(a, b)
      [] sorter = "by_extension" -> by_extension(a, b)
      [] sorter = "by_git_status" -> by_git_status(a, b)

DirGrouping == {"None", "First", "Last"}
SortColumn == {"None", "Extension", "Name", "Time", "Size", "Version", "GitStatus"}
SortOrder == {"Default", "Reverse"}

\* flags.sorting
SortingFlags == [dir_grouping : DirGrouping, column : SortColumn, order : SortOrder]

assemble_sorters(flags_sorting) ==
    (CASE flags_sorting.dir_grouping = "First" -> << <<"Default", "with_dirs_first">> >>
       [] flags_sorting.dir_grouping = "Last" -> << <<"Reverse", "with_dirs_first">> >>
       [] OTHER -> <<>>)
    \o
    (CASE flags_sorting.column = "Name" -> << <<flags_sorting.order, "by_name">> >>
       [] flags_sorting.column = "Size" -> << <<flags_sorting.order, "by_size">> >>
       [] flags_sorting.column = "Time" -> << <<flags_sorting.order, "by_date">> >>
       [] flags_sorting.column = "Version" -> << <<flags_sorting.order, "by_version">> >>
       [] flags_sorting.column = "Extension" -> << <<flags_sorting.order, "by_extension">> >>
       [] flags_sorting.column = "GitStatus" -> << <<flags_sorting.order, "by_git_status">> >>
       [] OTHER -> <<>>)

\* An evaluation that takes no account of the comparators' directions
RECURSIVE ByMetaForward(_, _, _)
ByMetaForward(sorters, a, b) ==
    IF sorters = <<>> THEN "Equal"
    ELSE Then(ApplySortFn(Head(sorters)[2], a, b), ByMetaForward(Tail(sorters), a, b))

RECURSIVE by_meta(_, _, _)
by_meta(sorters, a, b) ==
    IF sorters = <<>> THEN "Equal"
    ELSE LET ordering == ApplySortFn(Head(sorters)[2], a, b)
         IN  IF ordering = "Equal" THEN by_meta(Tail(sorters), a, b)
             ELSE IF Head(sorters)[1] = "Reverse" THEN Reverse(ordering)
             ELSE ordering

(***************************************************************************)
(* Core::sort: core.rs                                                     *)
(***************************************************************************)

\* slice::sort_unstable_by sorts slices of up to this many elements by
\* insertion (core::slice::sort, MAX_LEN_ALWAYS_INSERTION_SORT)
InsertionSortMaxLen == 20

is_less(sorters, a, b) == by_meta(sorters, a, b) = "Less"

\* Whether the slice is one non-descending run (find_existing_run)
IsSortedBy(sorters, v) ==
    \A i \in 1..(Len(v) - 1) : ~is_less(sorters, v[i + 1], v[i])

\* insert_tail: the element moves left past every element it is less than
RECURSIVE InsertTail(_, _, _)
InsertTail(sorters, v, x) ==
    IF v = <<>> THEN <<x>>
    ELSE IF is_less(sorters, x, v[Len(v)])
         THEN Append(InsertTail(sorters, SubSeq(v, 1, Len(v) - 1), x), v[Len(v)])
         ELSE Append(v, x)

\* insertion_sort_shift_left
RECURSIVE InsertionSort(_, _)
InsertionSort(sorters, v) ==
    IF v = <<>> THEN <<>>
    ELSE InsertTail(sorters, InsertionSort(sorters, SubSeq(v, 1, Len(v) - 1)), v[Len(v)])

SwapAt(v, i) ==
    [k \in 1..Len(v) |-> IF k = i THEN v[i + 1] ELSE IF k = i + 1 THEN v[i] ELSE v[k]]

\* slice::sort_unstable_by, as the set of slices it may leave: a slice that
\* is already a non-descending run is left as it is, a short slice is sorted
\* by insertion; a longer one is sorted by a quicksort that does not keep the
\* order of equal elements: among its results are the order an insertion
\* sort gives and the orders with two equal neighbours exchanged.
sort_unstable_by(sorters, v) ==
    IF IsSortedBy(sorters, v) THEN {v}
    ELSE IF Len(v) <= InsertionSortMaxLen THEN {InsertionSort(sorters, v)}
    ELSE LET s == InsertionSort(sorters, v)
         IN  {s} \cup {SwapAt(s, i) : i \in {k \in 1..(Len(s) - 1) :
                                              by_meta(sorters, s[k], s[k + 1]) = "Equal"}}

\* Core::sort: the slice, then the content of each of its elements
RECURSIVE sort(_, _)
sort(sorters, list) ==
    LET RECURSIVE Each(_, _)
        Each(v, i) ==
            IF i > Len(v) THEN {<<>>}
            ELSE LET heads ==
                         IF v[i].content = None THEN {v[i]}
                         ELSE {[v[i] EXCEPT !.content = Some(c)] :
                                  c \in sort(sorters, v[i].content[1])}
                 IN  {<<h>> \o r : h \in heads, r \in Each(v, i + 1)}
    IN  UNION {Each(v, 1) : v \in sort_unstable_by(sorters, list)}

(***************************************************************************)
(* Specification of the sort step                                          *)
(***************************************************************************)

MaxList == 3
MaxSorts == 2

GitFileStatusOf(index, workdir) == [index |-> index, workdir |-> workdir]

\* The entries lists are drawn from.  Two of them differ in nothing a
\* comparator looks at but the case of the name; sizes, dates and statuses
\* include the unknown ones.
SortMetaA ==
    NewMeta(<<<<"x">>, <<"a">>>>, "File", Some(1), Some(DateAt(2)), None)
SortMetaUpperA ==
    NewMeta(<<<<"y">>, <<"A">>>>, "File", Some(1), Some(DateAt(2)), None)
SortMetaObj ==
    NewMeta(<<<<"x">>, <<"a", ".", "o">>>>, "File", Some(3), Some(DateInvalid),
            Some(GitFileStatusOf("Unmodified", "Modified")))
SortMetaBroken ==
    NewMeta(<<<<"x">>, <<"b", ".", "O">>>>, "SymLinkFile", None, None,
            Some(GitFileStatusOf("NewInIndex", "Unmodified")))
SortMetaDir ==
    [NewMeta(<<<<"x">>, <<".", "d">>>>, "Directory", Some(2), Some(DateAt(1)),
             Some(GitFileStatusOf("Unmodified", "Modified")))
        EXCEPT !.content = Some(<<
            NewMeta(<<<<"x">>, <<".", "d">>, <<"a">>>>, "File", Some(1), Some(DateAt(1)), None),
            NewMeta(<<<<"x">>, <<".", "d">>, <<"b">>>>, "File", Some(2), Some(DateAt(2)), None),
            NewMeta(<<<<"x">>, <<".", "d">>, <<"A">>>>, "File", Some(1), Some(DateAt(1)), None)>>)]

SortMetas == {SortMetaA, SortMetaUpperA, SortMetaObj, SortMetaBroken, SortMetaDir}

\* A name of n letters
LongName(n) == [k \in 1..n |-> "d"]

\* A listing of one entry more than an insertion sort takes: a file "b"
\* first, then the files "a" of as many directories, alike but for the path
LongList ==
    [i \in 1..(InsertionSortMaxLen + 1) |->
        IF i = 1
        THEN NewMeta(<<LongName(i), <<"b">>>>, "File", Some(1), Some(DateAt(1)), None)
        ELSE NewMeta(<<LongName(i), <<"a">>>>, "File", Some(2), Some(DateAt(2)), None)]

\* Lists without repetition: every entry is one filesystem object
SortInputs ==
    {LongList} \cup
    UNION {{v \in [1..k -> SortMetas] : \A i, j \in 1..k : i # j => v[i] # v[j]} :
              k \in 0..MaxList}

SortIdle ==
    /\ opc = "idle"
    /\ sorting = [dir_grouping |-> "None", column |-> "None", order |-> "Default"]
    /\ metas = <<>>
    /\ previous = <<>>
    /\ nsorts = 0

\* Core::new has assembled the sorters; a view has buffered its metas
SortStart ==
    /\ opc = "ready"
    /\ sorting \in SortingFlags
    /\ metas \in SortInputs
    /\ previous = metas
    /\ nsorts = 0

\* Core::sort(&mut metas)
CoreSort ==
    /\ opc = "ready"
    /\ nsorts < MaxSorts
    /\ previous' = metas
    /\ metas' \in sort(assemble_sorters(sorting), metas)
    /\ nsorts' = nsorts + 1
    /\ UNCHANGED <<opc, sorting>>
    /\ UNCHANGED notSort

SortNext == CoreSort

(***************************************************************************)
(* The traversal: stream/mod.rs                                            *)
(***************************************************************************)

\* The names of the model's filesystem
Names ==
    [x |-> <<"x">>,
     y |-> <<"y">>,
     z |-> <<"z">>,
     hidden |-> <<".", "h">>,
     c |-> <<"c">>,
     t |-> <<"t">>,
     k |-> <<"k">>,
     obj |-> <<"a", ".", "o">>,
     badobj |-> <<BadByte, ".", "o">>,
     bad |-> <<".", BadByte>>,
     v |-> <<"v">>,
     r |-> <<"r">>,
     da |-> <<"d", "a">>,
     db |-> <<"d", "b">>,
     fa |-> <<"f", "a">>,
     fb |-> <<"f", "b">>,
     q |-> <<"q">>]

FsNode(path, file_type, size, mtime, metadata_ok) ==
    [path |-> path, file_type |-> file_type, size |-> size, mtime |-> mtime,
     metadata_ok |-> metadata_ok]

\* The filesystem below the working directory:
\*   x/y/z            a chain of directories down to a file
\*   x/.h/c, x/.h/z   a hidden directory holding two visible files, one of
\*                    them with the name of the file in y
\*   x/t/k            a directory the ignore patterns name, and a file in it
\*   x/a.o            a file the ignore patterns match by extension
\*   x/<FF>.o/.<FF>   a directory and a file whose names are not UTF-8
\*   x/v              a file that is gone when its metadata is read
\*   r/da/fa, r/db/fb two directories with one file each
\* and nothing named q.
FileSystem ==
    {FsNode(<<Names.x>>, "Directory", 4, 5, TRUE),
     FsNode(<<Names.x, Names.y>>, "Directory", 4, 4, TRUE),
     FsNode(<<Names.x, Names.y, Names.z>>, "File", 1, 3, TRUE),
     FsNode(<<Names.x, Names.hidden>>, "Directory", 4, 2, TRUE),
     FsNode(<<Names.x, Names.hidden, Names.c>>, "File", 2, 2, TRUE),
     FsNode(<<Names.x, Names.hidden, Names.z>>, "File", 1, 3, TRUE),
     FsNode(<<Names.x, Names.t>>, "Directory", 4, 1, TRUE),
     FsNode(<<Names.x, Names.t, Names.k>>, "File", 3, 1, TRUE),
     FsNode(<<Names.x, Names.obj>>, "File", 3, 3, TRUE),
     FsNode(<<Names.x, Names.badobj>>, "Directory", 4, 3, TRUE),
     FsNode(<<Names.x, Names.badobj, Names.bad>>, "File", 1, 1, TRUE),
     FsNode(<<Names.x, Names.v>>, "File", 0, 0, FALSE),
     FsNode(<<Names.r>>, "Directory", 4, 5, TRUE),
     FsNode(<<Names.r, Names.da>>, "Directory", 4, 4, TRUE),
     FsNode(<<Names.r, Names.da, Names.fa>>, "File", 1, 3, TRUE),
     FsNode(<<Names.r, Names.db>>, "Directory", 4, 4, TRUE),
     FsNode(<<Names.r, Names.db, Names.fb>>, "File", 1, 3, TRUE)}

Exists(path) == \E n \in FileSystem : n.path = path
NodeAt(path) == CHOOSE n \in FileSystem : n.path = path

\* The ignore patterns of the run (IgnoreGlobs::default names directories such
\* as "target" and extensions such as "*.pyc")
IgnorePatterns == <<Names.t, <<"*", ".", "o">>>>

\* OsStr::cmp of two file names: bytes in order, the invalid byte last
OsRank(c) == IF c = BadByte THEN Len(CharOrder) + 1 ELSE CharRank(c)

RECURSIVE OsLess(_, _)
OsLess(a, b) ==
    IF b = <<>> THEN FALSE
    ELSE IF a = <<>> THEN TRUE
    ELSE IF Head(a) = Head(b) THEN OsLess(Tail(a), Tail(b))
    ELSE OsRank(Head(a)) < OsRank(Head(b))

\* fs::read_dir(dir), sorted by file name (WalkDir::sort(true))
RECURSIVE SortedByName(_)
SortedByName(nodes) ==
    IF nodes = {} THEN <<>>
    ELSE LET first == CHOOSE n \in nodes :
                 \A m \in nodes \ {n} : OsLess(FileName(n.path), FileName(m.path))
         IN  <<first>> \o SortedByName(nodes \ {first})

ReadDir(dir) ==
    SortedByName({n \in FileSystem : Len(n.path) = Len(dir) + 1 /\ PathStartsWith(n.path, dir)})

\* The closure handed to process_read_dir: children.retain(..)
Retained(ignore_globs, file_name) ==
    IF ToStrIsSome(file_name) THEN ~is_match(ignore_globs, file_name) ELSE TRUE

\* jwalk::DirEntry
DirEntry(node, depth) ==
    [kind |-> "Ok", path |-> node.path, file_name |-> FileName(node.path),
     depth |-> depth, node |-> node]

\* The entries jwalk yields for the directory tree at node, depth first:
\* the entry itself, then, when it is a directory above max_depth, the
\* retained entries of its listing, each with what is below it
RECURSIVE WalkFrom(_, _, _, _)
WalkFrom(node, depth, max_depth, ignore_globs) ==
    LET RECURSIVE Below(_)
        Below(children) ==
            IF children = <<>> THEN <<>>
            ELSE (IF Retained(ignore_globs, FileName(Head(children).path))
                  THEN WalkFrom(Head(children), depth + 1, max_depth, ignore_globs)
                  ELSE <<>>)
                 \o Below(Tail(children))
    IN  <<DirEntry(node, depth)>>
        \o (IF node.file_type = "Directory" /\ depth < max_depth
            THEN Below(ReadDir(node.path))
            ELSE <<>>)

TraversalError(path) == [kind |-> "Err", error |-> "Traversal", path |-> path]
IoError(path) == [kind |-> "Err", error |-> "Io", path |-> path]

\* WalkDir::new(path) .. into_iter(): the root entry goes through
\* process_read_dir like the entries of a listing; a root that is not there
\* is one error
WalkDir(path, max_depth, ignore_globs) ==
    IF ~Exists(path) THEN <<TraversalError(path)>>
    ELSE IF ~Retained(ignore_globs, FileName(path)) THEN <<>>
    ELSE WalkFrom(NodeAt(path), 0, max_depth, ignore_globs)

\* The directories a walk reads: those it yields above max_depth
OpenedBy(walk, max_depth) ==
    {walk[i].path : i \in {j \in 1..Len(walk) :
        /\ walk[j].kind = "Ok"
        /\ walk[j].node.file_type = "Directory"
        /\ walk[j].depth < max_depth}}

Display == {"All", "AlmostAll", "DirectoryOnly", "VisibleOnly", "SystemProtected"}

\* The display mode filter of FileStream::new: whether the entry is dropped
DroppedByDisplay(display_mode, entry) ==
    IF ToStrIsSome(entry.file_name)
    THEN CASE display_mode = "VisibleOnly" -> StartsWith(entry.file_name, <<".">>)
           [] display_mode = "AlmostAll" ->
                  entry.file_name = <<".">> \/ entry.file_name = <<".", ".">>
           [] display_mode = "DirectoryOnly" -> entry.node.file_type # "Directory"
           [] OTHER -> FALSE
    ELSE FALSE

\* FileEntry::from_jwalk
from_jwalk(entry, base_depth) ==
    IF ~entry.node.metadata_ok THEN IoError(entry.path)
    ELSE [kind       |-> "Ok",
          path       |-> entry.path,
          name       |-> ToStringLossy(entry.file_name),
          file_type  |-> entry.node.file_type,
          metadata   |-> [len |-> entry.node.size, modified |-> entry.node.mtime],
          depth      |-> entry.depth - base_depth,
          git_status |-> None]

\* The filter_map over one walk
RECURSIVE FilterMap(_, _)
FilterMap(walk, display_mode) ==
    IF walk = <<>> THEN <<>>
    ELSE (IF Head(walk).kind = "Err" THEN <<Head(walk)>>
          ELSE IF DroppedByDisplay(display_mode, Head(walk)) THEN <<>>
          ELSE <<from_jwalk(Head(walk), 0)>>)
         \o FilterMap(Tail(walk), display_mode)

\* FileStream::new: the items of the stream, root after root
RECURSIVE FileStreamNew(_, _, _, _)
FileStreamNew(roots, max_depth, ignore_globs, display_mode) ==
    IF roots = <<>> THEN <<>>
    ELSE FilterMap(WalkDir(Head(roots), max_depth, ignore_globs), display_mode)
         \o FileStreamNew(Tail(roots), max_depth, ignore_globs, display_mode)

\* The directories the stream's walks read
RECURSIVE OpenedDirs(_, _, _)
OpenedDirs(roots, max_depth, ignore_globs) ==
    IF roots = <<>> THEN {}
    ELSE OpenedBy(WalkDir(Head(roots), max_depth, ignore_globs), max_depth)
         \cup OpenedDirs(Tail(roots), max_depth, ignore_globs)

\* FileEntry::to_meta
to_meta(entry) ==
    NewMeta(entry.path, entry.file_type, Some(entry.metadata.len),
            Some(DateAt(entry.metadata.modified)), None)

(***************************************************************************)
(* The views: core.rs                                                      *)
(***************************************************************************)

\* recursion.depth when none is configured: usize::MAX, deeper than any tree
DepthUnbounded == 99

\* enum ExitCode as i32
ExitCodeValue(code) ==
    CASE code = "OK" -> 0
      [] code = "MinorIssue" -> 1
      [] code = "MajorIssue" -> 2

\* ExitCode::set_if_greater
set_if_greater(self, code) ==
    IF ExitCodeValue(self) < ExitCodeValue(code) THEN code ELSE self

\* The configured depth taken whatever the layout and the recursion flag are
RunDepthConfigured(fl) == fl.recursion.depth

\* Core::run: the depth handed to the traversal
RunDepth(fl) ==
    IF fl.layout = "Tree" THEN fl.recursion.depth
    ELSE IF fl.recursion.enabled THEN fl.recursion.depth
    ELSE 1

\* eprintln!("Stream error: {}", e)
StreamErrorLine(item) == [kind |-> "Stream error", error |-> item.error, path |-> item.path]

\* entries.sort_by(|a, b| b.depth.cmp(&a.depth)): stable, deepest first
RECURSIVE SortByDepthDesc(_, _)
SortByDepthDesc(es, d) ==
    LET at(e) == e.depth = d
    IN  IF d < 0 THEN <<>>
        ELSE SelectSeq(es, at) \o SortByDepthDesc(es, d - 1)

MaxDepthOf(es) ==
    IF es = <<>> THEN 0
    ELSE LET ds == {es[i].depth : i \in 1..Len(es)}
         IN  CHOOSE d \in ds : \A e \in ds : e <= d

\* meta_map after the inserts: for each path the Meta of its last entry
MetaMap(es) ==
    [p \in {es[i].path : i \in 1..Len(es)} |->
        to_meta(es[CHOOSE i \in 1..Len(es) :
                     es[i].path = p /\ \A j \in (i + 1)..Len(es) : es[j].path # p])]

\* The first pass: the paths whose parent path is a key of meta_map
ChildPaths(es, meta_map) ==
    {es[i].path : i \in {j \in 1..Len(es) : Parent(es[j].path) \in DOMAIN meta_map}}

\* The second pass: entry after entry, a clone of the entry's Meta as it is
\* in the map at that moment is pushed to the content of its parent's Meta
RECURSIVE AttachChildren(_, _, _)
AttachChildren(es, child_paths, meta_map) ==
    IF es = <<>> THEN meta_map
    ELSE LET path == Head(es).path
             parent == Parent(path)
             siblings == IF meta_map[parent].content = None THEN <<>>
                         ELSE meta_map[parent].content[1]
         IN  IF path \in child_paths
             THEN AttachChildren(Tail(es), child_paths,
                      [meta_map EXCEPT ![parent].content =
                           Some(Append(siblings, meta_map[path]))])
             ELSE AttachChildren(Tail(es), child_paths, meta_map)

\* The third pass: the Metas of the entries that are no child, in entry order
RECURSIVE RootMetas(_, _, _)
RootMetas(es, child_paths, meta_map) ==
    IF es = <<>> THEN <<>>
    ELSE (IF Head(es).path \notin child_paths THEN <<meta_map[Head(es).path]>> ELSE <<>>)
         \o RootMetas(Tail(es), child_paths, meta_map)

\* display_tree_stream after the stream has ended: root_metas before the sort
BuildTree(es) ==
    LET sorted == SortByDepthDesc(es, MaxDepthOf(es))
        child_paths == ChildPaths(sorted, MetaMap(sorted))
    IN  RootMetas(sorted, child_paths,
                  AttachChildren(sorted, child_paths, MetaMap(sorted)))

\* A line that carries the objective in the place of the current task
EntryToJsonTaskLost(entry, llm) ==
    [path         |-> [i \in 1..Len(entry.path) |-> ToStringLossy(entry.path[i])],
     name         |-> entry.name,
     type         |-> entry.file_type,
     size         |-> entry.metadata.len,
     depth        |-> entry.depth,
     objective    |-> llm.objective,
     current_task |-> llm.objective]

\* AggregatedChatStream::entry_to_json, serialized: one line
entry_to_json(entry, llm) ==
    [path         |-> [i \in 1..Len(entry.path) |-> ToStringLossy(entry.path[i])],
     name         |-> entry.name,
     type         |-> entry.file_type,
     size         |-> entry.metadata.len,
     depth        |-> entry.depth,
     objective    |-> llm.objective,
     current_task |-> llm.current_task]

(***************************************************************************)
(* Specification of a run                                                  *)
(***************************************************************************)

MaxRoots == 3
MaxDepth == 1

\* The paths of the command line
RootPathChoices ==
    {<<Names.x>>, <<Names.x, Names.y, Names.z>>, <<Names.x, Names.hidden>>,
     <<Names.r>>, <<Names.q>>}

\* The lists of paths a run is given: up to MaxRoots different paths in any
\* order, or one path given twice
PathLists ==
    {ps \in UNION {[1..k -> RootPathChoices] : k \in 1..MaxRoots} :
        \A i, j \in 1..Len(ps) : ps[i] = ps[j] => i = j}
    \cup {<<p, p>> : p \in RootPathChoices}

LlmFlags ==
    {[enabled |-> FALSE, objective |-> None, current_task |-> None],
     [enabled |-> TRUE, objective |-> Some("objective"), current_task |-> Some("task")]}

\* The Flags a run reads
FlagSets ==
    [display     : Display,
     layout      : {"OneLine", "Tree"},
     llm         : LlmFlags,
     recursion   : [enabled : BOOLEAN, depth : (1..MaxDepth) \cup {DepthUnbounded}],
     sorting     : {[dir_grouping |-> "None", column |-> "Name", order |-> "Default"]},
     ignore_globs : {from_patterns(IgnorePatterns)}]

RunIdle ==
    /\ ppc = "idle"
    /\ flags = <<>>
    /\ paths = <<>>
    /\ file_stream = <<>>
    /\ yielded = <<>>
    /\ opened = {}
    /\ entries = <<>>
    /\ exit_code = "OK"
    /\ stdout = <<>>
    /\ stderr = <<>>

\* main: the flags are configured, Core::new has run
RunStart ==
    /\ ppc = "run"
    /\ flags \in FlagSets
    /\ paths \in PathLists
    /\ file_stream = <<>>
    /\ yielded = <<>>
    /\ opened = {}
    /\ entries = <<>>
    /\ exit_code = "OK"
    /\ stdout = <<>>
    /\ stderr = <<>>

\* Core::run up to the first await of the view it routes to
CoreRun ==
    /\ ppc = "run"
    /\ file_stream' = FileStreamNew(paths, RunDepth(flags), flags.ignore_globs, flags.display)
    /\ opened' = OpenedDirs(paths, RunDepth(flags), flags.ignore_globs)
    /\ ppc' = IF flags.llm.enabled THEN "llm"
              ELSE IF flags.layout = "Tree" THEN "tree"
              ELSE "buffered"
    /\ UNCHANGED <<flags, paths, yielded, entries, exit_code, stdout, stderr>>
    /\ UNCHANGED notRun

\* A turn of the loop that writes the entry it has just taken
BufferItemFlushing ==
    /\ file_stream # <<>>
    /\ file_stream' = Tail(file_stream)
    /\ yielded' = Append(yielded, Head(file_stream))
    /\ IF Head(file_stream).kind = "Ok"
       THEN /\ entries' = Append(entries, Head(file_stream))
            /\ stdout' = Append(stdout, [kind |-> "grid",
                                         metas |-> <<to_meta(Head(file_stream))>>])
            /\ UNCHANGED <<exit_code, stderr>>
       ELSE /\ stderr' = Append(stderr, StreamErrorLine(Head(file_stream)))
            /\ exit_code' = set_if_greater(exit_code, "MinorIssue")
            /\ UNCHANGED <<entries, stdout>>
    /\ UNCHANGED <<ppc, flags, paths, opened>>
    /\ UNCHANGED notRun

\* One turn of a buffering view's while let Some(result) = stream.next().await
BufferItem ==
    /\ file_stream # <<>>
    /\ file_stream' = Tail(file_stream)
    /\ yielded' = Append(yielded, Head(file_stream))
    /\ IF Head(file_stream).kind = "Ok"
       THEN /\ entries' = Append(entries, Head(file_stream))
            /\ UNCHANGED <<exit_code, stderr>>
       ELSE /\ stderr' = Append(stderr, StreamErrorLine(Head(file_stream)))
            /\ exit_code' = set_if_greater(exit_code, "MinorIssue")
            /\ UNCHANGED entries
    /\ UNCHANGED <<ppc, flags, paths, opened, stdout>>
    /\ UNCHANGED notRun

\* display_tree_stream: the loop
TreeNext == ppc = "tree" /\ BufferItem

\* display_tree_stream: after the loop
TreeDisplay ==
    /\ ppc = "tree"
    /\ file_stream = <<>>
    /\ \E root_metas \in sort(assemble_sorters(flags.sorting), BuildTree(entries)) :
          stdout' = Append(stdout, [kind |-> "tree", metas |-> root_metas])
    /\ ppc' = "exit"
    /\ UNCHANGED <<flags, paths, file_stream, yielded, opened, entries, exit_code, stderr>>
    /\ UNCHANGED notRun

\* display_buffered: the loop
BufferedNext == ppc = "buffered" /\ BufferItem

\* display_buffered: after the loop
BufferedDisplay ==
    /\ ppc = "buffered"
    /\ file_stream = <<>>
    /\ \E sorted \in sort(assemble_sorters(flags.sorting),
                          [i \in 1..Len(entries) |-> to_meta(entries[i])]) :
          stdout' = Append(stdout, [kind |-> "grid", metas |-> sorted])
    /\ ppc' = "exit"
    /\ UNCHANGED <<flags, paths, file_stream, yielded, opened, entries, exit_code, stderr>>
    /\ UNCHANGED notRun

\* display_llm_stream: one turn of the loop
LlmNext ==
    /\ ppc = "llm"
    /\ file_stream # <<>>
    /\ file_stream' = Tail(file_stream)
    /\ yielded' = Append(yielded, Head(file_stream))
    /\ IF Head(file_stream).kind = "Ok"
       THEN /\ stdout' = Append(stdout, [kind |-> "line",
                                         json |-> entry_to_json(Head(file_stream), flags.llm)])
            /\ UNCHANGED <<exit_code, stderr>>
       ELSE /\ stderr' = Append(stderr, StreamErrorLine(Head(file_stream)))
            /\ exit_code' = set_if_greater(exit_code, "MinorIssue")
            /\ UNCHANGED stdout
    /\ UNCHANGED <<ppc, flags, paths, opened, entries>>
    /\ UNCHANGED notRun

\* display_llm_stream: the stream has ended
LlmEnd ==
    /\ ppc = "llm"
    /\ file_stream = <<>>
    /\ ppc' = "exit"
    /\ UNCHANGED <<flags, paths, file_stream, yielded, opened, entries, exit_code, stdout, stderr>>
    /\ UNCHANGED notRun

RunNext ==
    \/ CoreRun
    \/ TreeNext
    \/ TreeDisplay
    \/ BufferedNext
    \/ BufferedDisplay
    \/ LlmNext
    \/ LlmEnd

(***************************************************************************)
(* The recursive listing: meta/mod.rs                                      *)
(***************************************************************************)

\* Meta::from_path for the object a directory entry names
from_path(node) ==
    NewMeta(node.path, node.file_type, Some(node.size), Some(DateAt(node.mtime)), None)

\* process_entry: None when the entry is filtered, else the depth of the
\* entry with its Meta or with the ExitCode of the failure to read it
process_entry(entry, fl) ==
    LET name == entry.file_name
        is_hidden == StartsWith(ToStringLossy(name), <<".">>)
    IN  IF fl.display = "VisibleOnly" /\ (is_match(fl.ignore_globs, name) \/ is_hidden)
        THEN None
        ELSE IF ~entry.node.metadata_ok
        THEN Some([depth |-> entry.depth, kind |-> "Err", code |-> "MinorIssue"])
        ELSE IF /\ fl.layout = "Tree"
                /\ fl.display = "DirectoryOnly"
                /\ entry.node.file_type # "Directory"
        THEN None
        ELSE Some([depth |-> entry.depth, kind |-> "Ok", meta |-> from_path(entry.node)])

\* The filter_map of recurse_into over the walk, in the walk's order
RECURSIVE CollectEntries(_, _, _)
CollectEntries(walk, self_path, fl) ==
    IF walk = <<>> THEN <<>>
    ELSE (IF Head(walk).kind = "Err"
          THEN <<[depth |-> 0, kind |-> "Err", code |-> "MinorIssue"]>>
          ELSE IF Head(walk).path = self_path THEN <<>>
          ELSE process_entry(Head(walk), fl))
         \o CollectEntries(Tail(walk), self_path, fl)

Reversed(v) == [i \in 1..Len(v) |-> v[Len(v) + 1 - i]]

Rotated(v, k) == [i \in 1..Len(v) |-> v[((i + k - 1) % Len(v)) + 1]]

\* The orders par_bridge may deliver a walk in, among which the model takes
\* the rotations of the walk's order and of its reverse
DeliveryOrders(v) ==
    IF v = <<>> THEN {<<>>}
    ELSE {Rotated(v, k) : k \in 0..(Len(v) - 1)}
         \cup {Rotated(Reversed(v), k) : k \in 0..(Len(v) - 1)}

\* How attach_and_sort_children takes the children of a path out of the
\* map, as a map that keeps them
KeepKey(map, key) == map

\* HashMap::remove
RemoveKey(map, key) == [p \in (DOMAIN map) \ {key} |-> map[p]]

\* sort_by(|a, b| a.name.name.cmp(&b.name.name)): stable, by the name text
RECURSIVE SortByNameText(_)
SortByNameText(v) ==
    LET RECURSIVE Insert(_, _)
        Insert(s, x) ==
            IF s = <<>> THEN <<x>>
            ELSE IF CmpStr(x.name, s[Len(s)].name) = "Less"
                 THEN Append(Insert(SubSeq(s, 1, Len(s) - 1), x), s[Len(s)])
                 ELSE Append(s, x)
    IN  IF v = <<>> THEN <<>>
        ELSE Insert(SortByNameText(SubSeq(v, 1, Len(v) - 1)), v[Len(v)])

\* Phase 1 of build_hierarchical_content: children_by_parent
RECURSIVE GroupByParent(_, _)
GroupByParent(all, map) ==
    IF all = <<>> THEN map
    ELSE LET e == Head(all)
             parent == Parent(e.meta.path)
         IN  IF e.kind = "Ok" /\ e.depth # 1
             THEN GroupByParent(Tail(all),
                      [p \in (DOMAIN map) \cup {parent} |->
                          IF p = parent
                          THEN (IF p \in DOMAIN map THEN map[p] ELSE <<>>) \o <<e.meta>>
                          ELSE map[p]])
             ELSE GroupByParent(Tail(all), map)

\* Meta::attach_and_sort_children: the entries with their children attached
\* and what is left of the map
RECURSIVE attach_and_sort_children(_, _)
attach_and_sort_children(es, children_map) ==
    IF es = <<>> THEN [entries |-> <<>>, map |-> children_map]
    ELSE LET entry == Head(es)
             first ==
                 IF entry.file_type = "Directory" /\ entry.path \in DOMAIN children_map
                 THEN LET below == attach_and_sort_children(
                                       SortByNameText(children_map[entry.path]),
                                       RemoveKey(children_map, entry.path))
                      IN  [entry |-> [entry EXCEPT !.content = Some(below.entries)],
                           map |-> below.map]
                 ELSE [entry |-> entry, map |-> children_map]
             rest == attach_and_sort_children(Tail(es), first.map)
         IN  [entries |-> <<first.entry>> \o rest.entries, map |-> rest.map]

\* print_error!("Warning: Entry '{}' orphaned (parent '{}' was filtered)", ..)
OrphanWarning(entry_path, parent_path) ==
    [kind |-> "Warning: orphaned", error |-> entry_path, path |-> parent_path]

\* The warnings of one drained (parent_path, orphaned_children) pair
OrphanWarnings(parent_path, children) ==
    [i \in 1..Len(children) |-> OrphanWarning(children[i].path, parent_path)]

\* children_by_parent.drain(): the pairs in an order of the HashMap's choosing
RECURSIVE DrainOrders(_)
DrainOrders(map) ==
    IF DOMAIN map = {} THEN {<<>>}
    ELSE UNION {{OrphanWarnings(p, map[p]) \o rest :
                    rest \in DrainOrders([q \in (DOMAIN map) \ {p} |-> map[q]])} :
                   p \in DOMAIN map}

\* The "." and ".." entries recurse_into puts first (create_dot_entries)
DotEntries(self_path, fl) ==
    IF fl.display \in {"All", "SystemProtected"} /\ fl.layout # "Tree"
    THEN <<[from_path(NodeAt(self_path)) EXCEPT !.name = <<".">>],
           [from_path(NodeAt(self_path)) EXCEPT
               !.name = <<".", ".">>, !.path = self_path \o <<<<".", ".">>>>]>>
    ELSE <<>>

\* ExitCode of the entries that could not be read
RECURSIVE WorstExitCode(_, _)
WorstExitCode(all, code) ==
    IF all = <<>> THEN code
    ELSE WorstExitCode(Tail(all),
             IF Head(all).kind = "Err" THEN set_if_greater(code, Head(all).code) ELSE code)

(***************************************************************************)
(* Specification of the recursive listing                                  *)
(***************************************************************************)

\* The directories recurse_into is called on
ListedDirs == {<<Names.x>>, <<Names.r>>}

ListingFlags ==
    [display      : Display,
     layout       : {"OneLine", "Tree"},
     depth        : (1..(MaxDepth + 1)) \cup {DepthUnbounded},
     ignore_globs : {from_patterns(IgnorePatterns)}]

BuildIdle ==
    /\ bpc = "idle"
    /\ listing = <<>>
    /\ all_entries = <<>>
    /\ content = <<>>
    /\ children_by_parent = <<>>
    /\ warnings = <<>>
    /\ listing_exit = "OK"

\* A directory's Meta and the flags, before recurse_into
BuildStart ==
    /\ bpc = "listing"
    /\ listing \in [self_path : ListedDirs, flags : ListingFlags]
    /\ all_entries = <<>>
    /\ content = <<>>
    /\ children_by_parent = <<>>
    /\ warnings = <<>>
    /\ listing_exit = "OK"

\* recurse_into down to the collect(): the walk, filtered, as delivered
CollectAll ==
    /\ bpc = "listing"
    /\ ~(listing.flags.display = "DirectoryOnly" /\ listing.flags.layout # "Tree")
    /\ all_entries' \in DeliveryOrders(
           CollectEntries(WalkFrom(NodeAt(listing.self_path), 0, listing.flags.depth, NoMatcher),
                          listing.self_path, listing.flags))
    /\ content' = DotEntries(listing.self_path, listing.flags)
    /\ bpc' = "collected"
    /\ UNCHANGED <<listing, children_by_parent, warnings, listing_exit>>
    /\ UNCHANGED notBuild

\* build_hierarchical_content(all_entries, &mut content, &mut exit_code)
BuildHierarchicalContent ==
    /\ bpc = "collected"
    /\ LET first_level == SelectSeq(all_entries, LAMBDA e : e.kind = "Ok" /\ e.depth = 1)
           root_metas == [i \in 1..Len(first_level) |-> first_level[i].meta]
           attached == attach_and_sort_children(root_metas, GroupByParent(all_entries, <<>>))
       IN  /\ warnings' \in DrainOrders(attached.map)
           /\ children_by_parent' = [p \in {} |-> attached.map[p]]
           /\ content' = SortByNameText(content \o attached.entries)
    /\ listing_exit' = WorstExitCode(all_entries, listing_exit)
    /\ bpc' = "built"
    /\ UNCHANGED <<listing, all_entries>>
    /\ UNCHANGED notBuild

BuildNext == CollectAll \/ BuildHierarchicalContent

(***************************************************************************)
(* The configuration of the PatternMatcher: flags/ignore_globs.rs, main.rs *)
(***************************************************************************)

\* Result<T, E>
Ok(value) == [kind |-> "Ok", value |-> value]
Err(error) == [kind |-> "Err", error |-> error]

\* Whether globset's Glob::new rejects the pattern: a character class that is
\* not closed, or an alternation that is not closed
GlobNewFails(pattern) ==
    \/ \E i \in 1..Len(pattern) :
          pattern[i] = "[" /\ \A j \in (i + 1)..Len(pattern) : pattern[j] # "]"
    \/ Cardinality({i \in 1..Len(pattern) : pattern[i] = "{"})
          > Cardinality({i \in 1..Len(pattern) : pattern[i] = "}"})

\* IgnoreGlobs::create_glob behind classify_pattern: only a pattern that is
\* classified Complex is handed to Glob::new
create_glob(pattern) ==
    IF classify_pattern(pattern).kind = "Complex" /\ GlobNewFails(pattern)
    THEN Err(pattern)
    ELSE Ok(classify_pattern(pattern))

\* IgnoreGlobs::from_patterns with its error: the first pattern whose
\* classification fails ends the construction
FromPatternsResult(pats) ==
    LET failing == {i \in 1..Len(pats) : create_glob(pats[i]).kind = "Err"}
    IN  IF failing = {}
        THEN Ok(from_patterns(pats))
        ELSE Err(pats[CHOOSE i \in failing : \A j \in failing : i <= j])

\* impl Default for IgnoreGlobs: the built-in list, a pattern that fails is
\* skipped
DefaultIgnoreGlobs ==
    from_patterns(SelectSeq(IgnorePatterns, LAMBDA p : create_glob(p).kind = "Ok"))

\* IgnoreGlobs::configure_from
configure_from(cli_globs, config_globs) ==
    IF cli_globs # <<>> THEN FromPatternsResult(cli_globs)
    ELSE IF config_globs # None THEN FromPatternsResult(config_globs[1])
    ELSE Ok(DefaultIgnoreGlobs)

MaxPatterns == 2

\* The patterns a user gives: an extension in either case, two literal names,
\* two globs, a glob with an open character class, a name with an open
\* alternation
PatternChoices ==
    {<<"*", ".", "a">>, <<"*", ".", "A">>, <<"a">>, <<"b", ".", "a">>, <<"?">>,
     <<"a", "*">>, <<"[", "a">>, <<"{", "a">>}

PatternLists == UNION {[1..k -> PatternChoices] : k \in 0..MaxPatterns}

\* The names is_match is asked about
MatchNames ==
    {<<"a">>, <<"A">>, <<"b", ".", "a">>, <<"b", ".", "A">>, <<"a", "b">>,
     <<"{", "a">>, <<".", "a">>, <<"b">>}

ConfigIdle ==
    /\ kpc = "idle"
    /\ cli_ignore_glob = <<>>
    /\ config_ignore_globs = None
    /\ configured = <<>>
    /\ match_name = <<>>
    /\ matched = FALSE

\* main: the command line is parsed and the configuration file is read
ConfigStart ==
    /\ kpc = "init"
    /\ cli_ignore_glob \in PatternLists
    /\ config_ignore_globs \in {None} \cup {Some(<<p>>) : p \in PatternChoices}
    /\ configured = <<>>
    /\ match_name \in MatchNames
    /\ matched = FALSE

\* Flags::configure_from: IgnoreGlobs::configure_from(cli, config)
ConfigureFrom ==
    /\ kpc = "init"
    /\ configured' = configure_from(cli_ignore_glob, config_ignore_globs)
    /\ kpc' = "configured"
    /\ UNCHANGED <<cli_ignore_glob, config_ignore_globs, match_name, matched>>
    /\ UNCHANGED notConfig

\* main: unwrap_or_else(|err| err.exit()) on an error: the process ends
\* before Core::new
ExitOnError ==
    /\ kpc = "configured"
    /\ configured.kind = "Err"
    /\ kpc' = "exited"
    /\ UNCHANGED <<cli_ignore_glob, config_ignore_globs, configured, match_name, matched>>
    /\ UNCHANGED notConfig

\* The traversal asks the matcher of the flags about a name
TraversalMatch ==
    /\ kpc = "configured"
    /\ configured.kind = "Ok"
    /\ matched' = is_match(configured.value, match_name)
    /\ kpc' = "matched"
    /\ UNCHANGED <<cli_ignore_glob, config_ignore_globs, configured, match_name>>
    /\ UNCHANGED notConfig

ConfigNext == ConfigureFrom \/ ExitOnError \/ TraversalMatch

(***************************************************************************)
(* The TreeAccumulator: stream/tree_accumulator.rs                         *)
(***************************************************************************)

\* Poll<Option<Item>>
PollPending == [poll |-> "Pending"]
PollReady(item) == [poll |-> "Ready", item |-> item]

\* What a poll of the source finds when the source has nothing ready
SourcePending == [kind |-> "Pending"]

\* TreeAccumulator::new(source, root)
TreeAccumulatorNew(root) ==
    [buffer |-> <<>>, pending_output |-> <<>>, is_complete |-> FALSE, root |-> root]

\* Path::parent of a path that has a last component
PathParent(path) == SubSeq(path, 1, Len(path) - 1)

\* buffer.entry(parent).or_default().push(entry)
BufferPush(buffer, parent, entry) ==
    [p \in (DOMAIN buffer) \cup {parent} |->
        IF p = parent
        THEN (IF parent \in DOMAIN buffer THEN buffer[parent] ELSE <<>>) \o <<entry>>
        ELSE buffer[p]]

\* PathBuf::cmp: component by component, a prefix before what extends it
RECURSIVE PathLess(_, _)
PathLess(p, q) ==
    IF q = <<>> THEN FALSE
    ELSE IF p = <<>> THEN TRUE
    ELSE IF Head(p) = Head(q) THEN PathLess(Tail(p), Tail(q))
    ELSE OsLess(Head(p), Head(q))

\* The actual_root of poll_next: the least key of the buffer that is the root
\* or a child of the root, the root when there is none
ActualRoot(self) ==
    LET keys == {p \in DOMAIN self.buffer :
                    (p # <<>> /\ PathParent(p) = self.root) \/ p = self.root}
    IN  IF keys = {} THEN self.root
        ELSE CHOOSE p \in keys : \A q \in keys \ {p} : PathLess(p, q)

\* The comparison of render_tree's sort_by: directories first, then by name
RenderOrder(a, b) ==
    IF a.file_type = "Directory" /\ b.file_type # "Directory" THEN "Less"
    ELSE IF a.file_type # "Directory" /\ b.file_type = "Directory" THEN "Greater"
    ELSE CmpStr(a.name, b.name)

\* slice::sort_by, a stable sort: e goes after the entries not greater than it
RECURSIVE InsertStable(_, _)
InsertStable(sorted, e) ==
    IF sorted = <<>> THEN <<e>>
    ELSE IF RenderOrder(e, Head(sorted)) = "Less" THEN <<e>> \o sorted
    ELSE <<Head(sorted)>> \o InsertStable(Tail(sorted), e)

RECURSIVE SortByRenderOrder(_)
SortByRenderOrder(items) ==
    IF items = <<>> THEN <<>>
    ELSE InsertStable(SortByRenderOrder(SubSeq(items, 1, Len(items) - 1)),
                      items[Len(items)])

\* format!("{}{}{} {}", prefix, branch, icon, entry.name)
TreeLine(prefix, is_last, entry) ==
    [prefix |-> prefix,
     branch |-> IF is_last THEN "last" ELSE "tee",
     icon   |-> IF entry.file_type = "Directory" THEN "folder" ELSE "page",
     name   |-> entry.name]

\* TreeAccumulator::render_tree
RECURSIVE render_tree(_, _, _)
render_tree(buffer, path, prefix) ==
    IF path \notin DOMAIN buffer THEN <<>>
    ELSE LET sorted == SortByRenderOrder(buffer[path])
             RECURSIVE Lines(_)
             Lines(i) ==
                 IF i > Len(sorted) THEN <<>>
                 ELSE LET entry   == sorted[i]
                          is_last == (i = Len(sorted))
                      IN  <<TreeLine(prefix, is_last, entry)>>
                          \o (IF entry.file_type = "Directory"
                              THEN render_tree(buffer, entry.path,
                                      Append(prefix, IF is_last THEN "space" ELSE "bar"))
                              ELSE <<>>)
                          \o Lines(i + 1)
         IN  Lines(1)

\* The end of poll_next when the source returns Ready(None): the tree is
\* rendered unless is_complete, then a line is popped
SourceExhausted(self) ==
    LET rendered == render_tree(self.buffer, ActualRoot(self), <<>>)
        pending  == IF self.is_complete THEN self.pending_output ELSE Reversed(rendered)
    IN  [self   |-> [self EXCEPT !.is_complete = TRUE,
                                 !.pending_output =
                                     IF pending = <<>> THEN <<>>
                                     ELSE SubSeq(pending, 1, Len(pending) - 1)],
         result    |-> IF pending = <<>> THEN PollReady(None)
                       ELSE PollReady(Some(Ok(pending[Len(pending)]))),
         rendering |-> IF self.is_complete THEN <<>> ELSE <<rendered>>]

\* The loop of poll_next over the source.  A source that has ended returns
\* Ready(None) again when it is polled again, as the streams made of
\* iterators do; ended and after count the polls
RECURSIVE BufferLoop(_, _, _, _)
BufferLoop(self, src, ended, after) ==
    LET after_now == IF ended THEN after + 1 ELSE after
    IN  IF src = <<>>
        THEN LET end == SourceExhausted(self)
             IN  [self |-> end.self, src |-> <<>>, ended |-> TRUE, after |-> after_now,
                  result |-> end.result, rendering |-> end.rendering]
        ELSE IF Head(src).kind = "Pending"
        THEN [self |-> self, src |-> Tail(src), ended |-> ended, after |-> after_now,
              result |-> PollPending, rendering |-> <<>>]
        ELSE IF Head(src).kind = "Err"
        THEN [self |-> self, src |-> Tail(src), ended |-> ended, after |-> after_now,
              result |-> PollReady(Some(Err(Head(src)))), rendering |-> <<>>]
        ELSE BufferLoop([self EXCEPT !.buffer =
                            BufferPush(self.buffer,
                                       IF Head(src).path = <<>> THEN self.root
                                       ELSE PathParent(Head(src).path),
                                       Head(src))],
                        Tail(src), ended, after_now)

\* A poll_next that does not drain pending_output before it turns to the source
PollNextSourceFirst(self, src, ended, after) == BufferLoop(self, src, ended, after)

\* <TreeAccumulator as Stream>::poll_next
poll_next(self, src, ended, after) ==
    IF self.pending_output # <<>>
    THEN [self |-> [self EXCEPT !.pending_output =
                        SubSeq(self.pending_output, 1, Len(self.pending_output) - 1)],
          src |-> src, ended |-> ended, after |-> after,
          result |-> PollReady(Some(Ok(self.pending_output[Len(self.pending_output)]))),
          rendering |-> <<>>]
    ELSE BufferLoop(self, src, ended, after)

(***************************************************************************)
(* Specification of the TreeAccumulator: a consumer polls it to the end    *)
(***************************************************************************)

MaxPending == 1

\* The sequences with up to k more polls that find the source not ready
RECURSIVE WithPending(_, _)
WithPending(seqs, k) ==
    IF k = 0 THEN seqs
    ELSE seqs \cup
         WithPending(UNION {{SubSeq(s, 1, i) \o <<SourcePending>> \o SubSeq(s, i + 1, Len(s)) :
                                i \in 0..Len(s)} : s \in seqs}, k - 1)

AccumulatorIdle ==
    /\ apc = "idle"
    /\ source = <<>>
    /\ source_ended = FALSE
    /\ polled_after_end = 0
    /\ tree_accumulator = TreeAccumulatorNew(<<>>)
    /\ renderings = <<>>
    /\ received = <<>>

\* TreeAccumulator::new over the stream of one root
AccumulatorStart ==
    /\ apc = "polling"
    /\ \E root \in RootPathChoices, display \in Display,
          max_depth \in {MaxDepth, DepthUnbounded} :
          /\ source \in WithPending(
                 {FileStreamNew(<<root>>, max_depth, from_patterns(IgnorePatterns), display)},
                 MaxPending)
          /\ tree_accumulator = TreeAccumulatorNew(root)
    /\ source_ended = FALSE
    /\ polled_after_end = 0
    /\ renderings = <<>>
    /\ received = <<>>

\* The consumer calls poll_next: it receives an item and polls again, is told
\* to wait and polls again when woken, or receives None and stops
ConsumerPoll ==
    /\ apc = "polling"
    /\ LET polled == poll_next(tree_accumulator, source, source_ended, polled_after_end)
       IN  /\ tree_accumulator' = polled.self
           /\ source' = polled.src
           /\ source_ended' = polled.ended
           /\ polled_after_end' = polled.after
           /\ renderings' = renderings \o polled.rendering
           /\ received' = IF polled.result.poll = "Ready" /\ polled.result.item # None
                          THEN Append(received, polled.result.item[1])
                          ELSE received
           /\ apc' = IF polled.result = PollReady(None) THEN "ended" ELSE "polling"
    /\ UNCHANGED notAccumulator

AccumulatorNext == ConsumerPoll

(***************************************************************************)
(* Specifications                                                          *)
(***************************************************************************)

GlobInit == GlobStart /\ GitIdle /\ ShieldIdle /\ SortIdle /\ RunIdle /\ BuildIdle /\ ConfigIdle /\ AccumulatorIdle
SpecGlob == GlobInit /\ [][GlobNext]_vars

GitInit == GitStart /\ GlobIdle /\ ShieldIdle /\ SortIdle /\ RunIdle /\ BuildIdle /\ ConfigIdle /\ AccumulatorIdle
SpecGit == GitInit /\ [][GitNext]_vars

ShieldInit == ShieldStart /\ GlobIdle /\ GitIdle /\ SortIdle /\ RunIdle /\ BuildIdle /\ ConfigIdle /\ AccumulatorIdle
SpecShield == ShieldInit /\ [][ShieldNext]_vars

SortInit == SortStart /\ GlobIdle /\ GitIdle /\ ShieldIdle /\ RunIdle /\ BuildIdle /\ ConfigIdle /\ AccumulatorIdle
SpecSort == SortInit /\ [][SortNext]_vars

Init == RunStart /\ GlobIdle /\ GitIdle /\ ShieldIdle /\ SortIdle /\ BuildIdle /\ ConfigIdle /\ AccumulatorIdle
Next == RunNext
Spec == Init /\ [][Next]_vars

BuildInit == BuildStart /\ GlobIdle /\ GitIdle /\ ShieldIdle /\ SortIdle /\ RunIdle /\ ConfigIdle /\ AccumulatorIdle
SpecBuild == BuildInit /\ [][BuildNext]_vars

ConfigInit == ConfigStart /\ GlobIdle /\ GitIdle /\ ShieldIdle /\ SortIdle /\ RunIdle /\ BuildIdle /\ AccumulatorIdle
SpecConfig == ConfigInit /\ [][ConfigNext]_vars

AccumulatorInit == AccumulatorStart /\ GlobIdle /\ GitIdle /\ ShieldIdle /\ SortIdle /\ RunIdle /\ BuildIdle /\ ConfigIdle
SpecAccumulator == AccumulatorInit /\ [][AccumulatorNext]_vars

(***************************************************************************)
(* PatternMatcher: properties                                              *)
(***************************************************************************)

\* The classification of the pattern text, as the claims speak of it
KindOf(p) ==
    IF StartsWith(p, <<"*", ".">>) /\ ~Contains(Drop(p, 2), GlobMeta \cup {"."})
    THEN "Extension"
    ELSE IF ~Contains(p, GlobMeta) THEN "ExactName" ELSE "Complex"

UserPatterns ==
    IF cli_ignore_glob # <<>> THEN cli_ignore_glob
    ELSE IF config_ignore_globs # None THEN config_ignore_globs[1]
    ELSE <<>>

\* C21: when at least one of the patterns the user supplied is a malformed
\* glob, configure_from returns an error and no matcher: the process ends
\* without a matcher having been asked.
C21_MalformedPatternIsAnError ==
    (/\ kpc \in {"configured", "matched", "exited"}
     /\ \E i \in 1..Len(UserPatterns) : GlobNewFails(UserPatterns[i])) =>
        /\ configured.kind = "Err"
        /\ kpc # "matched"

\* C22: when a pattern the user supplied is malformed, only that pattern is
\* dropped: configure_from returns the matcher of the well-formed patterns
\* that remain, and the process goes on to the traversal with it.
C22_MalformedPatternIsDropped ==
    (/\ kpc \in {"configured", "matched", "exited"}
     /\ UserPatterns # <<>>) =>
        /\ configured =
              Ok(from_patterns(SelectSeq(UserPatterns, LAMBDA p : ~GlobNewFails(p))))
        /\ kpc # "exited"

\* The patterns the matcher of a run is made of: those the user supplied, or
\* else the default ones
EffectivePatterns == IF UserPatterns # <<>> THEN UserPatterns ELSE IgnorePatterns

\* The three checks of a name n against the patterns pats, by class of pattern
ExtensionHit(pats, n) ==
    /\ PathExtension(n) # None
    /\ \E i \in 1..Len(pats) :
          /\ KindOf(pats[i]) = "Extension"
          /\ ToLowercase(PathExtension(n)[1]) = ToLowercase(Drop(pats[i], 2))

ExactNameHit(pats, n) ==
    \E i \in 1..Len(pats) : KindOf(pats[i]) = "ExactName" /\ n = pats[i]

ComplexHit(pats, n) ==
    \E i \in 1..Len(pats) : KindOf(pats[i]) = "Complex" /\ GlobMatch(pats[i], n)

\* Two names that differ at most in the case of the letters of the extension
SameButExtensionCase(n1, n2) ==
    /\ PathExtension(n1) # None
    /\ PathExtension(n2) # None
    /\ Len(n1) = Len(n2)
    /\ ToLowercase(PathExtension(n1)[1]) = ToLowercase(PathExtension(n2)[1])
    /\ SubSeq(n1, 1, Len(n1) - Len(PathExtension(n1)[1]))
          = SubSeq(n2, 1, Len(n2) - Len(PathExtension(n2)[1]))

\* C26, amended: a name is matched exactly when the lowercased final extension of the
\* name is one of the Extension patterns, or the name equals an ExactName
\* pattern case-sensitively, or a Complex glob matches the name; a name that
\* hits none of the three is not matched, and the extension check gives names
\* that differ only in the case of the extension the same verdict.
C26_MatchSemantics ==
    kpc = "matched" =>
        /\ matched = (\/ ExtensionHit(EffectivePatterns, match_name)
                      \/ ExactNameHit(EffectivePatterns, match_name)
                      \/ ComplexHit(EffectivePatterns, match_name))
        /\ \A n \in MatchNames :
              SameButExtensionCase(n, match_name) =>
                  (ExtensionHit(EffectivePatterns, n)
                      = ExtensionHit(EffectivePatterns, match_name))

\* C26 witness: with the patterns *.a and a, the name b.A was matched by its
\* extension, in the other case than the pattern's
C26_Witness ==
    /\ kpc = "matched"
    /\ cli_ignore_glob = << <<"*", ".", "a">>, <<"a">> >>
    /\ match_name = <<"b", ".", "A">>
    /\ matched

\* C26 as stated: the verdict is that of the three checks, and names that
\* differ only in the case of the extension get the same verdict from the
\* matcher, whatever its patterns.
C26_SameVerdictForEitherCase ==
    kpc = "matched" =>
        /\ matched = (\/ ExtensionHit(EffectivePatterns, match_name)
                      \/ ExactNameHit(EffectivePatterns, match_name)
                      \/ ComplexHit(EffectivePatterns, match_name))
        /\ \A n \in MatchNames :
              SameButExtensionCase(n, match_name) =>
                  (is_match(configured.value, n) = matched)

(***************************************************************************)
(* StatusCache: properties                                                 *)
(***************************************************************************)

\* The largest status of a non-empty set, in the declared order
MaxSeverityOf(S) == CHOOSE m \in S : \A x \in S : Severity(x) <= Severity(m)

\* The cached records whose path has directory d as a prefix of components
RecordsUnder(d) ==
    {i \in 1..Len(statuses) : PathStartsWith(statuses[i][1], d)}

\* C5: for a directory D, get(D, true) is, for the index and for the worktree
\* component separately, the maximum severity over the cached records whose
\* path has D as a path prefix (the default when there is none); so with a
\* modified and an ignored descendant it is never ignored or unmodified.
C5_DirectoryIsMaxOverPrefix ==
    (cpc = "got" /\ query[2] /\ Canonicalize(query[1]) # None) =>
        LET d   == Canonicalize(query[1])[1]
            idx == {"Default"} \cup
                   {UnwrapOr(statuses[i][2].index_status, "Unmodified") : i \in RecordsUnder(d)}
            wd  == {"Default"} \cup
                   {UnwrapOr(statuses[i][2].workdir_status, "Unmodified") : i \in RecordsUnder(d)}
        IN  /\ got = Some([index |-> MaxSeverityOf(idx), workdir |-> MaxSeverityOf(wd)])
            /\ ("Modified" \in wd => Severity(got[1].workdir) >= Severity("Modified"))
            /\ ("Modified" \in idx => Severity(got[1].index) >= Severity("Modified"))

\* C5 witness: a directory with a modified and an ignored descendant was asked for
C5_Witness ==
    /\ cpc = "got"
    /\ query = <<<<"a">>, TRUE>>
    /\ Len(statuses) = 2
    /\ statuses[1] = <<<<"a", "f">>, StatusInfo(None, Some("Modified"))>>
    /\ statuses[2] = <<<<"a", "b", "g">>, StatusInfo(None, Some("Ignored"))>>
    /\ got = Some([index |-> "Unmodified", workdir |-> "Modified"])

\* The cached records whose path equals p
RecordsAt(p) == {i \in 1..Len(statuses) : statuses[i][1] = p}

\* C23: for a file, get returns the cached record whose path equals the
\* canonical query path (the first such record of the scan), or the default
\* record when no record has that path; when no repository is found or the
\* status scan fails the cache is empty and a lookup, of a file or of a
\* directory, returns the default record.
C23_FileLookup ==
    (cpc = "got" /\ Canonicalize(query[1]) # None) =>
        LET p == Canonicalize(query[1])[1]
        IN  /\ (~query[2] /\ RecordsAt(p) = {}) => got = Some(DefaultFileStatus)
            /\ (~query[2] /\ RecordsAt(p) # {}) =>
                   LET i == CHOOSE j \in RecordsAt(p) : \A k \in RecordsAt(p) : j <= k
                   IN  got = Some(from_gix_status(statuses[i][2]))
            /\ (~(repo.found /\ repo.scan_ok)) =>
                   /\ statuses = <<>>
                   /\ got = Some(DefaultFileStatus)

\* C23 witness: the file a/f, asked for through the link, has a record and a
\* directory above it has none of its own
C23_Witness ==
    /\ cpc = "got"
    /\ query = <<<<LinkName, "f">>, FALSE>>
    /\ Len(statuses) = 2
    /\ statuses[1] = <<<<"c">>, StatusInfo(None, Some("Ignored"))>>
    /\ statuses[2] = <<<<"a", "f">>, StatusInfo(None, Some("Modified"))>>
    /\ got = Some([index |-> "Unmodified", workdir |-> "Modified"])

\* Component-wise at least, by severity
AtLeast(s1, s2) ==
    /\ Severity(s1.index) >= Severity(s2.index)
    /\ Severity(s1.workdir) >= Severity(s2.workdir)

\* The query paths that name a directory, and those that name a file
DirectoryQueries ==
    {q \in QueryPaths : Canonicalize(q) # None /\ Canonicalize(q)[1] \in WorkTreeDirs}

FileQueries ==
    {q \in QueryPaths : Canonicalize(q) # None /\ Canonicalize(q)[1] \in WorkTreeFiles}

C6_ShieldThreshold ==
    shielded.kind # "none" =>
        /\ (shielded.kind = "PassThrough") = (SerializedSize(payload) <= 10 * 1024 * 1024)
        /\ (shielded.kind = "PassThrough" => shielded.data = payload)
        /\ (shielded.kind = "FileShielded" =>
               /\ shielded.summary.total_entries = Len(payload)
               /\ shielded.path \in DOMAIN tempFiles)

\* C6 witness: a payload one byte over the threshold, of two records, was spilled
C6_Witness ==
    /\ shielded.kind = "FileShielded"
    /\ SerializedSize(payload) = 10 * 1024 * 1024 + 1
    /\ Len(payload) = 2
    /\ shielded.summary.total_entries = 2

\* C6 witness of the other side: a payload of exactly the threshold passed through
C6_WitnessExact ==
    /\ shielded.kind = "PassThrough"
    /\ SerializedSize(payload) = 10 * 1024 * 1024

PositionIn(v, m) == CHOOSE i \in 1..Len(v) : v[i] = m

\* The entries of a list and of the contents below it
RECURSIVE EntriesOf(_)
EntriesOf(v) ==
    UNION {{v[i]} \cup (IF v[i].content = None THEN {} ELSE EntriesOf(v[i].content[1])) :
              i \in 1..Len(v)}

\* C7: for every sort configuration by_meta over the assembled chain is
\* antisymmetric under argument swap, transitive and total on the entries
\* (it orders any two of them, equal ones included), and sorting a list that
\* has been sorted leaves every element where it is.
C7_TotalOrderAndIdempotent ==
    opc = "ready" =>
        LET sorters == assemble_sorters(sorting)
            E == EntriesOf(metas)
        IN  /\ nsorts = 0 =>
                  /\ \A a, b \in E :
                        /\ by_meta(sorters, a, b) \in {"Less", "Equal", "Greater"}
                        /\ by_meta(sorters, a, b) = Reverse(by_meta(sorters, b, a))
                  /\ \A a, b \in E :
                        by_meta(sorters, a, b) # "Greater" =>
                            \A c \in E :
                                by_meta(sorters, b, c) # "Greater"
                                    => /\ by_meta(sorters, a, c) # "Greater"
                                       /\ (by_meta(sorters, a, c) = "Equal"
                                              => by_meta(sorters, a, b) = "Equal")
            /\ (nsorts >= 1 => IsSortedBy(sorters, metas))
            /\ (nsorts >= 2 => metas = previous)

\* C7 witness: a list holding an entry of unknown size, out of order by size,
\* has been sorted twice
C7_Witness ==
    /\ opc = "ready"
    /\ nsorts = 2
    /\ sorting = [dir_grouping |-> "First", column |-> "Size", order |-> "Default"]
    /\ metas = <<SortMetaBroken, SortMetaObj, SortMetaA>>

\* C8: two entries that every comparator of the chain reports equal are, after
\* the sort, in the relative order they had before it.
C8_TiesKeepTheirOrder ==
    (opc = "ready" /\ nsorts >= 1) =>
        \A i, j \in 1..Len(previous) :
            (i < j /\ by_meta(assemble_sorters(sorting), previous[i], previous[j]) = "Equal")
                => PositionIn(metas, previous[i]) < PositionIn(metas, previous[j])

\* The primary-key comparators
PrimaryKeys ==
    {"by_name", "by_size", "by_date", "by_version", "by_extension", "by_git_status"}

\* C25: for every sort configuration the chain assemble_sorters returns is
\* zero or one directory-grouping comparator (first in the chain, forward for
\* directories first and reversed for directories last) followed by exactly
\* one primary-key comparator.
C25_ChainShape ==
    opc # "idle" =>
        LET chain == assemble_sorters(sorting)
            n     == Len(chain)
        IN  /\ n = (IF sorting.dir_grouping = "None" THEN 1 ELSE 2)
            /\ chain[n][2] \in PrimaryKeys
            /\ sorting.dir_grouping = "First" => chain[1] = <<"Default", "with_dirs_first">>
            /\ sorting.dir_grouping = "Last" => chain[1] = <<"Reverse", "with_dirs_first">>

\* The same shape for the configurations that name a sort column
C25_ChainShapeWithColumn ==
    (opc # "idle" /\ sorting.column # "None") => C25_ChainShape

\* The comparators of a chain that do not report Equal for a and b
Deciding(sorters, a, b) ==
    {i \in 1..Len(sorters) : ApplySortFn(sorters[i][2], a, b) # "Equal"}

\* C27: by_meta returns the result of the first comparator of the chain that
\* is not Equal, reversed exactly when that comparator's own direction is
\* Reverse, and returns Equal exactly when every comparator of the chain
\* returns Equal, as for the empty chain.
C27_FirstDecidingComparator ==
    opc = "ready" =>
        LET sorters == assemble_sorters(sorting)
        IN  \A a, b \in EntriesOf(metas) :
               LET D == Deciding(sorters, a, b)
               IN  /\ (by_meta(sorters, a, b) = "Equal") = (D = {})
                   /\ D # {} =>
                         LET i == CHOOSE j \in D : \A k \in D : j <= k
                             o == ApplySortFn(sorters[i][2], a, b)
                         IN  by_meta(sorters, a, b) =
                                 IF sorters[i][1] = "Reverse" THEN Reverse(o) ELSE o

\* C27 witness: a sort with directories last and names in reverse has compared
\* two entries of the same group, which the second comparator decides and its
\* direction reverses, and two of different groups, which the first decides
C27_Witness ==
    /\ opc = "ready"
    /\ nsorts >= 1
    /\ sorting = [dir_grouping |-> "Last", column |-> "Name", order |-> "Reverse"]
    /\ \E a, b \in EntriesOf(metas) :
          /\ with_dirs_first(a, b) = "Equal"
          /\ by_name(a, b) = "Less"
          /\ by_meta(assemble_sorters(sorting), a, b) = "Greater"
    /\ \E a, b \in EntriesOf(metas) :
          /\ with_dirs_first(a, b) = "Less"
          /\ by_meta(assemble_sorters(sorting), a, b) = "Greater"

(***************************************************************************)
(* A run: properties                                                       *)
(***************************************************************************)

\* The paths of the entries a view has collected
EntryPaths == {entries[i].path : i \in 1..Len(entries)}

\* The nodes of a tree of Metas, each with the path of the node it hangs
\* under (the empty path for a root)
RECURSIVE NodesOf(_, _)
NodesOf(tree, under) ==
    IF tree = <<>> THEN <<>>
    ELSE <<[path |-> Head(tree).path, under |-> under]>>
         \o (IF Head(tree).content = None THEN <<>>
             ELSE NodesOf(Head(tree).content[1], Head(tree).path))
         \o NodesOf(Tail(tree), under)

\* The tree handed to display::tree
RenderedTree == stdout[Len(stdout)].metas

\* C1: when the entries collected by the tree view are distinct filesystem
\* objects, the tree handed to the renderer has as roots exactly the entries
\* whose parent path is not among the entries, every other entry is a child of
\* the node of its parent path and of no other node, and the tree has as many
\* nodes as there are entries.
C1_TreeReconstruction ==
    (/\ ppc = "exit"
     /\ ~flags.llm.enabled
     /\ flags.layout = "Tree"
     /\ Cardinality(EntryPaths) = Len(entries)) =>
        LET nodes == NodesOf(RenderedTree, <<>>)
        IN  /\ Len(nodes) = Len(entries)
            /\ \A p \in EntryPaths :
                  Cardinality({i \in 1..Len(nodes) : nodes[i].path = p}) = 1
            /\ \A i \in 1..Len(nodes) :
                  /\ nodes[i].path \in EntryPaths
                  /\ nodes[i].under = <<>> <=> Parent(nodes[i].path) \notin EntryPaths
                  /\ nodes[i].under # <<>> => nodes[i].under = Parent(nodes[i].path)

\* C2: in tree mode, for every entry that survives below a root while its
\* parent directory was excluded, the run emits exactly one diagnostic naming
\* the entry and its parent, and it still succeeds.
C2_OrphansAreReported ==
    (ppc = "exit" /\ ~flags.llm.enabled /\ flags.layout = "Tree") =>
        \A i \in 1..Len(entries) :
            (entries[i].depth > 0 /\ Parent(entries[i].path) \notin EntryPaths) =>
                /\ Cardinality({j \in 1..Len(stderr) :
                       stderr[j] = OrphanWarning(entries[i].path, Parent(entries[i].path))}) = 1
                /\ exit_code # "MajorIssue"

\* The names of the proper ancestors of an item that lie below its root
AncestorNamesBelowRoot(item) ==
    {item.path[k] : k \in (Len(item.path) - item.depth + 1)..(Len(item.path) - 1)}

\* The paths the walks start from
RootPathSet == {paths[i] : i \in 1..Len(paths)}

\* C9: no directory below a root whose name the PatternMatcher matches is
\* opened, and no item of the traversal sequence has a proper ancestor below
\* its root whose name the PatternMatcher matches.
C9_IgnoredDirectoriesAreNeverOpened ==
    ppc \notin {"idle", "run"} =>
        /\ \A d \in opened \ RootPathSet : ~is_match(flags.ignore_globs, FileName(d))
        /\ \A i \in 1..Len(yielded) :
              yielded[i].kind = "Ok" =>
                  \A name \in AncestorNamesBelowRoot(yielded[i]) :
                      ~is_match(flags.ignore_globs, name)

\* C10: every entry the traversal emits satisfies the display mode: in
\* visible-only mode its name neither starts with '.' nor is matched by the
\* PatternMatcher, in directory-only mode it is a directory, and in almost-all
\* mode the display filter drops nothing but the synthetic '.' and '..', so
\* every entry the walks produce, dot-prefixed ones included, has been
\* yielded when the stream has ended.
C10_DisplayModePredicate ==
    /\ \A i \in 1..Len(yielded) :
          yielded[i].kind = "Ok" =>
              LET file_name == FileName(yielded[i].path)
              IN  /\ flags.display = "VisibleOnly" =>
                        /\ ~StartsWith(file_name, <<".">>)
                        /\ ~is_match(flags.ignore_globs, file_name)
                  /\ flags.display = "DirectoryOnly" =>
                        yielded[i].file_type = "Directory"
    /\ (ppc = "exit" /\ flags.display = "AlmostAll") =>
          \A root \in RootPathSet :
              LET walk == WalkDir(root, RunDepth(flags), flags.ignore_globs)
              IN  \A k \in 1..Len(walk) :
                      (walk[k].kind = "Ok" /\ walk[k].file_name \notin {<<".">>, <<".", ".">>}) =>
                          \E i \in 1..Len(yielded) : yielded[i].path = walk[k].path

\* The filesystem objects a walk from root reaches within the depth bound
WithinDepth(root, max_depth) ==
    {n \in FileSystem : PathStartsWith(n.path, root) /\ Len(n.path) - Len(root) <= max_depth}

\* C11: in display mode all, every filesystem object within the depth bound
\* of a root is an item of the traversal sequence when the stream has ended,
\* those whose names match the ignore patterns included.
C11_AllDropsNothing ==
    (ppc = "exit" /\ flags.display = "All") =>
        \A root \in RootPathSet :
            \A n \in WithinDepth(root, RunDepth(flags)) :
                \E i \in 1..Len(yielded) : yielded[i].path = n.path

\* C12: the traversal is bounded by 1 when neither recursion nor the tree
\* layout is requested and by the configured recursion depth otherwise, and
\* every entry emitted has the depth of its path below one of the roots, at
\* most this bound.
C12_DepthBound ==
    LET bound == IF flags.layout # "Tree" /\ ~flags.recursion.enabled
                 THEN 1
                 ELSE flags.recursion.depth
    IN  ppc # "idle" =>
            \A i \in 1..Len(yielded) :
                yielded[i].kind = "Ok" =>
                    /\ yielded[i].depth <= bound
                    /\ \E k \in 1..Len(paths) :
                          /\ PathStartsWith(yielded[i].path, paths[k])
                          /\ yielded[i].depth = Len(yielded[i].path) - Len(paths[k])

\* C12 witness: a flat listing without recursion, with no depth configured,
\* has ended with the children of x and nothing from below them
C12_Witness ==
    /\ ppc = "exit"
    /\ flags.layout = "OneLine"
    /\ ~flags.recursion.enabled
    /\ flags.recursion.depth = DepthUnbounded
    /\ flags.display = "All"
    /\ paths = <<<<Names.x>>>>
    /\ \E i \in 1..Len(yielded) :
          yielded[i].kind = "Ok" /\ yielded[i].path = <<Names.x, Names.y>> /\ yielded[i].depth = 1
    /\ \A i \in 1..Len(yielded) : yielded[i].path # <<Names.x, Names.y, Names.z>>

\* The sequence the traversal of the run yields, from its first item to its end
TraversalSequence ==
    FileStreamNew(paths, RunDepth(flags), flags.ignore_globs, flags.display)

\* The paths that the output of an ended run shows, as the view writes them
OutputPaths ==
    IF flags.llm.enabled
    THEN {stdout[k].json.path : k \in 1..Len(stdout)}
    ELSE IF flags.layout = "Tree"
    THEN LET nodes == NodesOf(RenderedTree, <<>>)
         IN  {nodes[k].path : k \in 1..Len(nodes)}
    ELSE {stdout[Len(stdout)].metas[k].path : k \in 1..Len(stdout[Len(stdout)].metas)}

\* The path of an entry as the view of the run writes it
WrittenPath(entry) ==
    IF flags.llm.enabled
    THEN [i \in 1..Len(entry.path) |-> ToStringLossy(entry.path[i])]
    ELSE entry.path

\* C13: in every view, when the run has ended the whole traversal sequence
\* has been consumed, errors included; every entry that was read is in the
\* output; and the exit status is minor-issue when the sequence held an error
\* and ok when it held none.
C13_ErrorsDoNotAbortTheWalk ==
    ppc = "exit" =>
        /\ yielded = TraversalSequence
        /\ \A i \in 1..Len(yielded) :
              yielded[i].kind = "Ok" => WrittenPath(yielded[i]) \in OutputPaths
        /\ exit_code = (IF \E i \in 1..Len(yielded) : yielded[i].kind = "Err"
                        THEN "MinorIssue"
                        ELSE "OK")

\* C14: when the run was given several roots and one of them cannot be read,
\* the failure is reported once for each time that root was given and for no
\* other path, every item of the walk of every other root is in the
\* traversal sequence, and every entry read there is in the output.
C14_RootIsolation ==
    (/\ ppc = "exit"
     /\ Len(paths) > 1
     /\ \E k \in 1..Len(paths) : ~Exists(paths[k])) =>
        /\ \A k \in 1..Len(paths) :
              ~Exists(paths[k]) =>
                  Cardinality({j \in 1..Len(stderr) :
                                  stderr[j] = StreamErrorLine(TraversalError(paths[k]))})
                      = Cardinality({j \in 1..Len(paths) : paths[j] = paths[k]})
        /\ \A j \in 1..Len(stderr) :
              stderr[j].error = "Traversal" =>
                  \E k \in 1..Len(paths) : paths[k] = stderr[j].path /\ ~Exists(paths[k])
        /\ \A k \in 1..Len(paths) :
              Exists(paths[k]) =>
                  LET walk == FilterMap(WalkDir(paths[k], RunDepth(flags), flags.ignore_globs),
                                        flags.display)
                  IN  \A m \in 1..Len(walk) :
                          /\ \E i \in 1..Len(yielded) : yielded[i] = walk[m]
                          /\ walk[m].kind = "Ok" => WrittenPath(walk[m]) \in OutputPaths

\* The entries read so far and the errors met so far, in the order of the
\* traversal sequence
ReadSoFar == SelectSeq(yielded, LAMBDA item : item.kind = "Ok")
ErrorsSoFar == SelectSeq(yielded, LAMBDA item : item.kind = "Err")

\* C15: in the streaming view, whenever the next item is about to be
\* requested the lines written are, one for one and in order, the entries read
\* so far, each with the objective and the current task of the flags, and the
\* errors reported are the error items met so far, none of which gave a line.
C15_StreamingViewDoesNotBuffer ==
    (ppc \in {"llm", "exit"} /\ flags.llm.enabled) =>
        /\ Len(stdout) = Len(ReadSoFar)
        /\ \A k \in 1..Len(stdout) :
              /\ stdout[k].kind = "line"
              /\ stdout[k].json.path = WrittenPath(ReadSoFar[k])
              /\ stdout[k].json.name = ReadSoFar[k].name
              /\ stdout[k].json.depth = ReadSoFar[k].depth
              /\ stdout[k].json.objective = flags.llm.objective
              /\ stdout[k].json.current_task = flags.llm.current_task
        /\ Len(stderr) = Len(ErrorsSoFar)
        /\ \A k \in 1..Len(stderr) : stderr[k] = StreamErrorLine(ErrorsSoFar[k])

\* C15 witness: the streaming view is in the middle of the sequence, after an
\* entry, an error and another entry, with an objective and a task given
C15_Witness ==
    /\ ppc = "llm"
    /\ file_stream # <<>>
    /\ flags.llm.objective # None
    /\ flags.llm.current_task # None
    /\ Len(stdout) >= 2
    /\ \E i, j, k \in 1..Len(yielded) :
          /\ i < j /\ j < k
          /\ yielded[i].kind = "Ok" /\ yielded[j].kind = "Err" /\ yielded[k].kind = "Ok"

\* C16: every line the streaming view hands to its consumer has passed
\* through Shield::process: when a line is on the output the shield has
\* processed a payload and has passed it through or spilled it.
C16_ShieldGuardsStreamingView ==
    \A k \in 1..Len(stdout) :
        stdout[k].kind = "line" =>
            /\ spc = "done"
            /\ shielded.kind \in {"PassThrough", "FileShielded"}

\* C17: in the flat and the tree view nothing is on the output as long as an
\* item of the traversal sequence is still to be consumed: whatever is written
\* is written after the whole sequence has been taken, in one piece.
C17_NoPartialOutput ==
    (ppc \in {"tree", "buffered", "exit"} /\ ~flags.llm.enabled) =>
        /\ file_stream # <<>> => stdout = <<>>
        /\ stdout # <<>> =>
              /\ Len(stdout) = 1
              /\ yielded = TraversalSequence
              /\ Len(entries) = Len(ReadSoFar)

\* C17 witness: a buffering view holds two entries, the sequence has more to
\* give, and nothing has been written
C17_Witness ==
    /\ ppc \in {"tree", "buffered"}
    /\ Len(entries) >= 2
    /\ file_stream # <<>>
    /\ stdout = <<>>

\* The sequence es with its i-th element delivered later, after the j-th
MoveLater(es, i, j) ==
    SubSeq(es, 1, i - 1) \o SubSeq(es, i + 1, j) \o <<es[i]>> \o SubSeq(es, j + 1, Len(es))

\* Whether delivering the i-th entry after the j-th is an interleaving of
\* sibling directories: the entry passes neither an entry of its own
\* directory nor one of its descendants
IsInterleaving(es, i, j) ==
    /\ i < j
    /\ es[i].depth > 0
    /\ \A k \in (i + 1)..j :
          /\ Parent(es[k].path) # Parent(es[i].path)
          /\ ~PathStartsWith(es[k].path, es[i].path)

\* What the buffering view of the run writes for the entries es: the outcomes
\* of the sort after the tree, or the list, has been built
ViewOf(es) ==
    IF flags.layout = "Tree"
    THEN sort(assemble_sorters(flags.sorting), BuildTree(es))
    ELSE sort(assemble_sorters(flags.sorting), [i \in 1..Len(es) |-> to_meta(es[i])])

PathsOf(ms) == [i \in 1..Len(ms) |-> ms[i].path]

\* C19: for the root r, which holds exactly da/fa and db/fb, the flat view
\* sorted by name has exactly da and db as its nodes, in that order, and the
\* tree view with no depth configured has exactly the two root nodes da and
\* db, each with exactly one child, a file.
C19_EndToEndShape ==
    (/\ ppc = "exit"
     /\ ~flags.llm.enabled
     /\ paths = <<<<Names.r>>>>
     /\ flags.sorting = [dir_grouping |-> "None", column |-> "Name", order |-> "Default"]) =>
        LET shown == stdout[Len(stdout)].metas
        IN  /\ (flags.layout = "OneLine" /\ ~flags.recursion.enabled) =>
                  PathsOf(shown) = <<<<Names.r, Names.da>>, <<Names.r, Names.db>>>>
            /\ (flags.layout = "Tree" /\ flags.recursion.depth = DepthUnbounded) =>
                  /\ PathsOf(shown) = <<<<Names.r, Names.da>>, <<Names.r, Names.db>>>>
                  /\ \A i \in 1..Len(shown) :
                        /\ shown[i].content # None
                        /\ Len(shown[i].content[1]) = 1
                        /\ shown[i].content[1][1].file_type = "File"

\* The paths of the nodes an ended buffering view shows, one for each node
ShownNodePaths ==
    IF flags.layout = "Tree"
    THEN LET nodes == NodesOf(RenderedTree, <<>>)
         IN  [k \in 1..Len(nodes) |-> nodes[k].path]
    ELSE PathsOf(stdout[Len(stdout)].metas)

\* C20: whatever the list of roots is, no path is emitted twice by the
\* traversal, and no path is the path of two nodes of the flat list or of the
\* tree.
C20_OneEntryPerObject ==
    /\ ppc # "idle" =>
          \A i, j \in 1..Len(yielded) :
              (yielded[i].kind = "Ok" /\ yielded[j].kind = "Ok"
                 /\ yielded[i].path = yielded[j].path) => i = j
    /\ (ppc = "exit" /\ ~flags.llm.enabled) =>
          \A i, j \in 1..Len(ShownNodePaths) :
              ShownNodePaths[i] = ShownNodePaths[j] => i = j

\* C29: the root path of each traversal is emitted as an entry of depth 0,
\* whatever its name or kind: neither the ignore patterns nor the display
\* mode filter removes a root that exists.
C29_RootIsAlwaysEmitted ==
    ppc = "exit" =>
        \A root \in RootPathSet :
            Exists(root) =>
                \E i \in 1..Len(yielded) :
                    /\ yielded[i].kind = "Ok"
                    /\ yielded[i].path = root
                    /\ yielded[i].depth = 0

\* The same for the roots that the display mode filter would let pass as an
\* entry below a root
C29_RootPassingTheFilterIsEmitted ==
    ppc = "exit" =>
        \A root \in RootPathSet :
            (/\ Exists(root)
             /\ ~DroppedByDisplay(flags.display, DirEntry(NodeAt(root), 0))
             /\ ~is_match(flags.ignore_globs, FileName(root))) =>
                \E i \in 1..Len(yielded) :
                    /\ yielded[i].kind = "Ok"
                    /\ yielded[i].path = root
                    /\ yielded[i].depth = 0

(***************************************************************************)
(* The TreeAccumulator: properties                                         *)
(***************************************************************************)

\* The lines the consumer has received, errors left out
ReceivedLines ==
    LET RECURSIVE LinesOf(_)
        LinesOf(items) ==
            IF items = <<>> THEN <<>>
            ELSE (IF Head(items).kind = "Ok" THEN <<Head(items).value>> ELSE <<>>)
                 \o LinesOf(Tail(items))
    IN  LinesOf(received)

\* No line before the end of the source; one rendering once the source has
\* ended; the lines received are the first lines of the rendering, and all of
\* them when the accumulator has reported the end
C30_RendersOnceAndEmitsInOrder ==
    apc # "idle" =>
        /\ ReceivedLines # <<>> => source_ended
        /\ Len(renderings) = (IF source_ended THEN 1 ELSE 0)
        /\ source_ended =>
              /\ Len(ReceivedLines) <= Len(renderings[1])
              /\ ReceivedLines = SubSeq(renderings[1], 1, Len(ReceivedLines))
        /\ apc = "ended" => (source_ended /\ ReceivedLines = renderings[1])

\* C30: the accumulator emits no line before its source has reported the end
\* of the stream; once the source has ended it renders the tree exactly once,
\* emits every rendered line exactly once, top to bottom, then reports the end
\* of the stream; and it never polls the source again after the source has
\* reported the end of the stream.
C30_AccumulatorProtocol ==
    /\ C30_RendersOnceAndEmitsInOrder
    /\ polled_after_end = 0

(***************************************************************************)
(* The recursive listing: properties                                       *)
(***************************************************************************)

\* The entries of all_entries that were read
ReadEntries == {i \in 1..Len(all_entries) : all_entries[i].kind = "Ok"}

\* C3: when build_hierarchical_content returns, the grouping map is empty and
\* every entry that was read is accounted for exactly once: it is exactly one
\* node of the content built and no warning names it, or it is no node and
\* exactly one orphan warning names it and its parent; when the parent of
\* every entry below the first level was read too, there is no warning.
C3_AttachAndDrainAccounting ==
    bpc = "built" =>
        LET nodes == NodesOf(content, <<>>)
            NodeCount(p) == Cardinality({k \in 1..Len(nodes) : nodes[k].path = p})
            WarningCount(p) ==
                Cardinality({k \in 1..Len(warnings) :
                                warnings[k] = OrphanWarning(p, Parent(p))})
        IN  /\ DOMAIN children_by_parent = {}
            /\ \A i \in ReadEntries :
                  LET p == all_entries[i].meta.path
                  IN  /\ NodeCount(p) + WarningCount(p) = 1
                      /\ NodeCount(p) = 1 => \A k \in 1..Len(warnings) : warnings[k].error # p
            /\ Len(warnings) =
                  Cardinality({i \in ReadEntries : NodeCount(all_entries[i].meta.path) = 0})
            /\ (\A i \in ReadEntries :
                    all_entries[i].depth # 1 =>
                        \E j \in ReadEntries :
                            all_entries[j].meta.path = Parent(all_entries[i].meta.path))
                  => warnings = <<>>

\* C3 witness: a listing was built in which a file was attached below the
\* first level and a file under a filtered hidden directory was reported
C3_Witness ==
    /\ bpc = "built"
    /\ listing.self_path = <<Names.x>>
    /\ listing.flags.display = "VisibleOnly"
    /\ \E k \in 1..Len(warnings) :
          warnings[k] = OrphanWarning(<<Names.x, Names.hidden, Names.c>>, <<Names.x, Names.hidden>>)
    /\ \E i \in 1..Len(content) :
          /\ content[i].path = <<Names.x, Names.y>>
          /\ content[i].content # None
          /\ Len(content[i].content[1]) = 1
          /\ content[i].content[1][1].path = <<Names.x, Names.y, Names.z>>

====
